---- MODULE Spec2Model ----
(***************************************************************************)
(* State-machine model of the terrain pipeline of xenarch:                 *)
(*   - TerrainSplitter.split_terrain   (xenarch_mk2/utils/splitter.py)     *)
(*   - FractalAnalyzer                 (xenarch_mk2/metrics/fractal.py)    *)
(*   - MetricsGenerator                (xenarch_mk2/metrics/generator.py,  *)
(*                                      backend/core/metrics/generator.py) *)
(*   - TerrainAnalyzer.analyze         (xenarch_mk2/analyzers/terrain.py)  *)
(*   - the command-line pipeline       (main.py)                           *)
(*   - one job of the web backend      (backend/app.py, backend/cli.py)    *)
(* Each component has its own specification; the variables of the other    *)
(* components stay at their idle values.                                   *)
(***************************************************************************)
EXTENDS Integers, Sequences, FiniteSets, TLC

VARIABLES
    sp_pc,      \* splitter: "new" | "init" | "loop" | "done" | "raised"
    sp_host,    \* splitter: [cpu_count, eighths]: cpu_fraction = eighths / 8
    sp_env,     \* splitter: os.environ, the threading variables
    sp_run,     \* splitter: which call of split_terrain this is
    sp_first,   \* splitter: the output directory as the first call left it
    sp_cfg,     \* splitter: [grid_size, overlap] of TerrainSplitter.__init__
    sp_raster,  \* splitter: the source raster [height, width, nz]
    sp_plan,    \* splitter: [size, overlap, step, windows] of lines 35-55
    sp_i,       \* splitter: index of the next candidate window
    sp_events,  \* splitter: one record per window visited, in order
    sp_out,     \* splitter: tile files of the output directory
    sp_count,   \* splitter: grid_count
    sp_faults,  \* splitter: I/O faults the environment may still inject
    es_pc,      \* estimator: "init" | "counted" | "estimated" | "handled"
    es_image,   \* estimator: the 2-D array handed to FractalAnalyzer
    es_call,    \* estimator: the arguments of the last call
    es_result,  \* estimator: what the last call returned or raised
    mg_pc,      \* metrics generator: "init" | "run" | "done" | "raised"
    mg_cfg,     \* metrics generator: [variant, workers]
    mg_tiles,   \* metrics generator: the *.tif files found, [stem, image, est]
    mg_state,   \* metrics generator: per tile "pending" | "writing" | "ok" | "failed"
    mg_records, \* metrics generator: the *.json files of the directory
    mg_results, \* metrics generator: what process_file returned, per tile
    mg_successful, \* metrics generator: len(successful), once logged
    an_pc,      \* analyzer: "init" | "run" | "done"
    an_cfg,     \* analyzer: [grid_size, chunk_size] of TerrainAnalyzer.__init__
    an_raster,  \* analyzer: [height, width] of the data source
    an_start_y, \* analyzer: start_y of the next chunk
    an_chunk_id, \* analyzer: chunk_id of the next chunk
    an_yielded, \* analyzer: the ChunkResults yielded so far, in order
    an_files,   \* analyzer: the files of ./data/processed_tiffs
    an_passes,  \* analyzer: one record per pass of the chunk loop, in order
    an_last,    \* analyzer: the grids the last process_chunk call handled
    id_pc,      \* grid ids: "init" | "done"
    id_keys,    \* grid ids: two tiles [component, a, b], each [chunk_id, x, y]
    id_out,     \* grid ids: the grid_ids formatted for the two tiles
    st_pc,      \* step size: "init" | "done" | "raised"
    st_in,      \* step size: [cfg, height, width] given to split_terrain
    st_out,      \* step size: [size, overlap, step, windows] of lines 35-55
    pl_pc,      \* pipeline: "parsed" | "split" | "metrics" | "analysis" | "raised" | "exited"
    pl_in,      \* pipeline: [command, tiles, split_raises, had_records] of one main.py run
    pl_trace,   \* pipeline: the stages started, in order
    pl_tiles,   \* pipeline: the *.tif files of the working directory
    pl_records, \* pipeline: the *.json files of the working directory
    pl_exit,     \* pipeline: the exit status of the process
    jb_pc,      \* job: where the upload request and its pipeline subprocess are
    jb_in,      \* job: [upload, tiles, split_raises] of one upload request
    jb_dir,     \* job: the files of the job results directory, [stem, ext]
    jb_done,    \* job: the tiles the metrics stage has handled
    jb_exit,    \* job: the exit status of the pipeline subprocess
    jb_resp,    \* job: the HTTP status the upload request returned
    jb_poll,    \* job: the last answer of the status endpoint
    jb_res      \* job: the last answer of the results endpoint

splitVars == <<sp_pc, sp_host, sp_env, sp_run, sp_first, sp_cfg, sp_raster, sp_plan,
               sp_i, sp_events, sp_out, sp_count, sp_faults>>

estVars == <<es_pc, es_image, es_call, es_result>>

metVars == <<mg_pc, mg_cfg, mg_tiles, mg_state, mg_records, mg_results, mg_successful>>

anaVars == <<an_pc, an_cfg, an_raster, an_start_y, an_chunk_id, an_yielded, an_files,
             an_passes, an_last>>

idVars == <<id_pc, id_keys, id_out>>

stepVars == <<st_pc, st_in, st_out>>

pipeVars == <<pl_pc, pl_in, pl_trace, pl_tiles, pl_records, pl_exit>>

jobVars == <<jb_pc, jb_in, jb_dir, jb_done, jb_exit, jb_resp, jb_poll, jb_res>>

vars == <<splitVars, estVars, metVars, anaVars, idVars, stepVars, pipeVars, jobVars>>

\* the variables a component leaves alone
notSplit == <<estVars, metVars, anaVars, idVars, stepVars, pipeVars, jobVars>>

notEst == <<splitVars, metVars, anaVars, idVars, stepVars, pipeVars, jobVars>>

notMet == <<splitVars, estVars, anaVars, idVars, stepVars, pipeVars, jobVars>>

notAna == <<splitVars, estVars, metVars, idVars, stepVars, pipeVars, jobVars>>

notId == <<splitVars, estVars, metVars, anaVars, stepVars, pipeVars, jobVars>>

notStep == <<splitVars, estVars, metVars, anaVars, idVars, pipeVars, jobVars>>

notPipe == <<splitVars, estVars, metVars, anaVars, idVars, stepVars, jobVars>>

notJob == <<splitVars, estVars, metVars, anaVars, idVars, stepVars, pipeVars>>

\* a component that is not running
SplitIdle ==
    /\ sp_pc = "idle" /\ sp_cfg = <<>> /\ sp_raster = <<>> /\ sp_plan = <<>>
    /\ sp_i = 0 /\ sp_events = <<>> /\ sp_out = {} /\ sp_count = 0 /\ sp_faults = 0
    /\ sp_host = <<>> /\ sp_env = <<>> /\ sp_run = 0 /\ sp_first = {}

EstIdle == es_pc = "idle" /\ es_image = <<>> /\ es_call = <<>> /\ es_result = <<>>

MetIdle ==
    /\ mg_pc = "idle" /\ mg_cfg = <<>> /\ mg_tiles = <<>> /\ mg_state = <<>>
    /\ mg_records = {} /\ mg_results = <<>> /\ mg_successful = 0

AnaIdle ==
    /\ an_pc = "idle" /\ an_cfg = <<>> /\ an_raster = <<>> /\ an_start_y = 0
    /\ an_chunk_id = 0 /\ an_yielded = <<>>
    /\ an_files = {} /\ an_passes = <<>> /\ an_last = <<>>

IdIdle == id_pc = "idle" /\ id_keys = <<>> /\ id_out = <<>>

StepIdle == st_pc = "idle" /\ st_in = <<>> /\ st_out = <<>>

PipeIdle == pl_pc = "idle" /\ pl_in = <<>> /\ pl_trace = <<>> /\ pl_tiles = {} /\ pl_records = {} /\ pl_exit = 0

JobIdle == jb_pc = "idle" /\ jb_in = <<>> /\ jb_dir = {} /\ jb_done = {} /\ jb_exit = 0 /\ jb_resp = 0 /\ jb_poll = <<>> /\ jb_res = <<>>

(***************************************************************************)
(* Small arithmetic helpers.                                               *)
(***************************************************************************)
Min(a, b) == IF a <= b THEN a ELSE b

Max(a, b) == IF a >= b THEN a ELSE b

RECURSIVE Pow2(_)
Pow2(e) == IF e <= 0 THEN 1 ELSE 2 * Pow2(e - 1)

\* floor(log2(n)) for n >= 1
RECURSIVE Log2Floor(_)
Log2Floor(n) == IF n < 2 THEN 0 ELSE 1 + Log2Floor(n \div 2)

(***************************************************************************)
(* The float arithmetic of splitter.py lines 40-41,                        *)
(*     overlap_ratio = self.overlap / self.grid_size                       *)
(*     adjusted_overlap = int(adjusted_grid_size * overlap_ratio)          *)
(* in IEEE-754 binary64 (round to nearest, ties to even), computed exactly *)
(* on integers.  For 0 < k < n the quotient k/n lies in [2^-j, 2^(1-j))    *)
(* and is stored as Q / 2^t with t = 52 + j and Q the rounded value of     *)
(* k * 2^t / n; the rounding error is d / (n * 2^t) with                   *)
(* d = Q * n - k * 2^t.  The product S * Q / 2^t differs from S*k/n by     *)
(* S * d / (n * 2^t), which can only change its integer part when S*k/n    *)
(* is itself an integer m and the product rounds to the double below m.    *)
(***************************************************************************)
DoubleFractionBits == 52

\* least j >= from with k * 2^j >= n: the binary exponent of k/n is -j
RECURSIVE RatioExponent(_, _, _)
RatioExponent(k, n, from) ==
    IF k * Pow2(from) >= n THEN from ELSE RatioExponent(k, n, from + 1)

\* long division of k * 2^t by n: <<remainder, last quotient bit>>
RECURSIVE DivBits(_, _, _, _)
DivBits(rem, bit, n, t) ==
    IF t = 0 THEN <<rem, bit>>
    ELSE DivBits((2 * rem) % n, IF 2 * rem >= n THEN 1 ELSE 0, n, t - 1)

\* d = Q * n - k * 2^t for Q = the binary64 significand of k / n
RatioError(k, n) ==
    LET j   == RatioExponent(k, n, 1)
        st  == DivBits(k % n, 0, n, DoubleFractionBits + j)
        rem == st[1]
    IN  IF 2 * rem < n THEN 0 - rem
        ELSE IF 2 * rem > n THEN n - rem
        ELSE IF st[2] = 0 THEN 0 - rem ELSE n - rem

\* int(S * (k / n)) for 0 <= k < n, 1 <= S
AdjustedOverlap(S, k, n) ==
    IF k = 0 THEN 0
    ELSE LET m == (S * k) \div n
             f == (S * k) % n
             d == RatioError(k, n)
             j == RatioExponent(k, n, 1)
             E == Log2Floor(m)
             c == IF m = Pow2(E) THEN 2 ELSE 1
         IN  IF f = 0 /\ d < 0 /\ c * S * (0 - d) > n * Pow2(j + E - 1)
             THEN m - 1
             ELSE m

(***************************************************************************)
(* Terrain Splitter: xenarch_mk2/utils/splitter.py                         *)
(***************************************************************************)
MaxGridSize == 3
MaxHeight == 4
MaxWidth == 4
MaxFaults == 1
MaxGeomGrid == 22
MaxExtraWidth == 8

\* A raster is [height, width, nz]: nz is the rectangle of pixels
\* x0 <= x < x1, y0 <= y < y1 whose value is not 0 (empty when x0 = x1).
Pixel(r, x, y) ==
    IF r.nz.x0 <= x /\ x < r.nz.x1 /\ r.nz.y0 <= y /\ y < r.nz.y1 THEN 1 ELSE 0

NoPixels == [x0 |-> 0, x1 |-> 0, y0 |-> 0, y1 |-> 0]

Rectangles(w, h) ==
    {NoPixels} \cup
    {[x0 |-> a, x1 |-> b, y0 |-> c, y1 |-> d] :
        <<a, b, c, d>> \in {q \in (0..w) \X (0..w) \X (0..h) \X (0..h) :
                               /\ q[1] < q[2] /\ q[2] \in {q[1] + 1, w}
                               /\ q[3] < q[4] /\ q[4] \in {q[3] + 1, h}}}

\* range() with an inclusive stop
RECURSIVE PyRangeInclusive(_, _, _)
PyRangeInclusive(start, stop, step) ==
    IF start > stop THEN <<>>
    ELSE <<start>> \o PyRangeInclusive(start + step, stop, step)

\* Python's range(start, stop, step) for step >= 1, as the sequence it yields
RECURSIVE PyRange(_, _, _)
PyRange(start, stop, step) ==
    IF start >= stop THEN <<>>
    ELSE <<start>> \o PyRange(start + step, stop, step)

\* f"{n:05d}": the decimal digits of n, left-padded with zeros to 5 places
RECURSIVE Digits(_)
Digits(n) == IF n < 10 THEN <<n>> ELSE Append(Digits(n \div 10), n % 10)

RECURSIVE ZeroPad(_, _)
ZeroPad(ds, width) == IF Len(ds) >= width THEN ds ELSE ZeroPad(<<0>> \o ds, width)

\* grid_id = f"grid_{x:05d}_{y:05d}"
GridId(x, y) == <<"grid_">> \o ZeroPad(Digits(x), 5) \o <<"_">> \o ZeroPad(Digits(y), 5)

\* the nested loops of lines 54-55, flattened in the order they run
RECURSIVE RowWindows(_, _)
RowWindows(ys, xs) ==
    IF ys = <<>> THEN <<>>
    ELSE [i \in 1..Len(xs) |-> [x |-> xs[i], y |-> Head(ys)]] \o RowWindows(Tail(ys), xs)

\* lines 35-55: effective size, overlap, step and the candidate windows
AdjustedGridSize(grid_size, height) == Min(grid_size, height)

StepSize(size, adjusted_overlap) == size - adjusted_overlap

\* the loops running over the n_grids_y x n_grids_x of lines 48-49 instead
SplitPlanExpected(cfg, r) ==
    LET size == AdjustedGridSize(cfg.grid_size, r.height)
        ovl  == AdjustedOverlap(size, cfg.overlap, cfg.grid_size)
        step == StepSize(size, ovl)
    IN  [size |-> size, overlap |-> ovl, step |-> step,
         windows |-> RowWindows(PyRange(0, Max(1, r.height - size + 1), step),
                                PyRange(0, Max(1, r.width - size + 1), step))]

SplitPlan(cfg, r) ==
    LET size == AdjustedGridSize(cfg.grid_size, r.height)
        ovl  == AdjustedOverlap(size, cfg.overlap, cfg.grid_size)
        step == StepSize(size, ovl)
    IN  [size |-> size, overlap |-> ovl, step |-> step,
         windows |-> RowWindows(PyRange(0, r.height - size + 1, step),
                                PyRange(0, r.width - size + 1, step))]

\* line 62: the window's pixels; line 67: grid.size == 0 or np.all(grid == 0)
\* background as soon as one pixel is 0
IsBackgroundAny(r, w, size) ==
    \/ size * size = 0
    \/ \E y \in w.y .. w.y + size - 1 :
          \E x \in w.x .. w.x + size - 1 : Pixel(r, x, y) = 0

IsBackground(r, w, size) ==
    \/ size * size = 0
    \/ \A y \in w.y .. w.y + size - 1 :
          \A x \in w.x .. w.x + size - 1 : Pixel(r, x, y) = 0

\* what the environment can do to one window's I/O
TileFaults(budget) ==
    IF budget > 0 THEN {"none", "read", "open", "write"} ELSE {"none"}

\* lines 60-90 for one window under a fault: the event it leaves behind
TileOutcome(r, w, size, fault) ==
    IF fault = "read" THEN "read_failed"
    ELSE IF IsBackground(r, w, size) THEN "skipped"
    ELSE IF fault = "open" THEN "open_failed"
    ELSE IF fault = "write" THEN "write_failed"
    ELSE "saved"

\* the tile file rasterio.open(output_path, 'w', ...) creates (lines 75-86)
TileFile(w, size, complete) ==
    [id |-> GridId(w.x, w.y), x |-> w.x, y |-> w.y,
     height |-> size, width |-> size, complete |-> complete]

\* a write that removes the file it finds under the same name
WriteFileToggle(dir, file) ==
    IF \E f \in dir : f.id = file.id THEN {f \in dir : f.id # file.id} ELSE dir \cup {file}

\* mode 'w' replaces the file of the same name
WriteFile(dir, file) == {f \in dir : f.id # file.id} \cup {file}

\* the directory after the window's outcome
OutputAfter(dir, w, size, outcome) ==
    IF outcome = "saved" THEN WriteFile(dir, TileFile(w, size, TRUE))
    ELSE IF outcome = "write_failed" THEN WriteFile(dir, TileFile(w, size, FALSE))
    ELSE dir

\* line 87: grid_count += 1 runs after dst.write returned
CountAfter(count, outcome) == IF outcome = "saved" THEN count + 1 ELSE count

\* line 62 is outside the try of lines 74-90: a failed read leaves the loops
PcAfter(outcome) == IF outcome = "read_failed" THEN "raised" ELSE "loop"

SplitConfigs(maxGrid) ==
    {[grid_size |-> g, overlap |-> o] :
        <<g, o>> \in {q \in (1..maxGrid) \X (0..maxGrid) : q[2] < q[1]}}

\* the scenarios of the specification's section 8
ScenarioQuadrant == [height |-> 1024, width |-> 1024]

ScenarioQuadrantCfg == [grid_size |-> 512, overlap |-> 0]

ScenarioClampCfgs == {[grid_size |-> 512, overlap |-> o] : o \in {0, 64, 100, 256}}

\* lines 18-22: the variables __init__ assigns
ThreadKnobs ==
    {"OMP_NUM_THREADS", "OPENBLAS_NUM_THREADS", "MKL_NUM_THREADS",
     "VECLIB_MAXIMUM_THREADS", "NUMEXPR_NUM_THREADS"}

\* cpu_fraction is a multiple of 1/8, for which the product of line 17 is exact
FractionSteps == 8

\* line 17: n_cpus = max(1, int(multiprocessing.cpu_count() * cpu_fraction))
NCpus(host) == Max(1, (host.cpu_count * host.eighths) \div FractionSteps)

\* the threading variables of a process that inherited none
InheritedEnv == [k \in ThreadKnobs |-> <<>>]

\* lines 18-22: os.environ[k] = str(n_cpus)
EnvAfterInit(env, n_cpus) == [k \in DOMAIN env |-> IF k \in ThreadKnobs THEN Digits(n_cpus) ELSE env[k]]

\* the host of the runs that start after construction: 4 cpus, cpu_fraction 0.5
DefaultHost == [cpu_count |-> 4, eighths |-> 4]

SplitStart(cfg, r, faults) ==
    /\ EstIdle /\ MetIdle /\ AnaIdle /\ IdIdle
    /\ JobIdle
    /\ PipeIdle
    /\ StepIdle
    /\ sp_pc = "init" /\ sp_cfg = cfg /\ sp_raster = r
    /\ sp_host = DefaultHost /\ sp_env = EnvAfterInit(InheritedEnv, NCpus(DefaultHost))
    /\ sp_run = 1 /\ sp_first = {}
    /\ sp_plan = <<>> /\ sp_i = 0 /\ sp_events = <<>> /\ sp_out = {}
    /\ sp_count = 0 /\ sp_faults = faults

\* rasters about as large as the grid, every pixel non-zero, no faults
InitSplitGeom ==
    \/ \E cfg \in SplitConfigs(MaxGeomGrid) :
          \E h \in Max(1, cfg.grid_size - 1) .. cfg.grid_size + 1,
             w \in {Max(1, cfg.grid_size - 1), cfg.grid_size + MaxExtraWidth} :
             SplitStart(cfg, [height |-> h, width |-> w,
                              nz |-> [x0 |-> 0, x1 |-> w, y0 |-> 0, y1 |-> h]], 0)
    \/ \E cfg \in ScenarioClampCfgs, w \in {300, 1024} :
          SplitStart(cfg, [height |-> 300, width |-> w,
                           nz |-> [x0 |-> 0, x1 |-> w, y0 |-> 0, y1 |-> 300]], 0)

InitSplit ==
    \/ \E cfg \in SplitConfigs(MaxGridSize), h \in 1..MaxHeight, w \in 1..MaxWidth,
          faults \in 0..MaxFaults :
          \E nz \in Rectangles(w, h) :
             SplitStart(cfg, [height |-> h, width |-> w, nz |-> nz], faults)
    \/ \E qx \in {0, 512}, qy \in {0, 512}, part \in {1, 512} :
          SplitStart(ScenarioQuadrantCfg,
                     [height |-> ScenarioQuadrant.height, width |-> ScenarioQuadrant.width,
                      nz |-> [x0 |-> qx, x1 |-> qx + part, y0 |-> qy, y1 |-> qy + part]],
                     0)
    \/ SplitStart(ScenarioQuadrantCfg,
                  [height |-> ScenarioQuadrant.height, width |-> ScenarioQuadrant.width,
                   nz |-> NoPixels], 0)

\* lines 27-52: open the source, derive the plan
SplitOpen ==
    /\ sp_pc = "init"
    /\ sp_plan' = SplitPlan(sp_cfg, sp_raster)
    /\ sp_pc' = "loop"
    /\ sp_i' = 1
    /\ UNCHANGED <<sp_host, sp_env, sp_run, sp_first, sp_cfg, sp_raster, sp_events, sp_out,
                   sp_count, sp_faults, notSplit>>

\* lines 56-90: one pass of the loop body
SplitTile ==
    /\ sp_pc = "loop"
    /\ sp_i <= Len(sp_plan.windows)
    /\ \E fault \in TileFaults(sp_faults) :
          LET w       == sp_plan.windows[sp_i]
              outcome == TileOutcome(sp_raster, w, sp_plan.size, fault)
          IN  /\ sp_events' = Append(sp_events, [x |-> w.x, y |-> w.y, outcome |-> outcome])
              /\ sp_out' = OutputAfter(sp_out, w, sp_plan.size, outcome)
              /\ sp_count' = CountAfter(sp_count, outcome)
              /\ sp_pc' = PcAfter(outcome)
              /\ sp_faults' = IF fault = "none" THEN sp_faults ELSE sp_faults - 1
    /\ sp_i' = sp_i + 1
    /\ UNCHANGED <<sp_host, sp_env, sp_run, sp_first, sp_cfg, sp_raster, sp_plan, notSplit>>

\* line 92: both loops are exhausted
SplitFinish ==
    /\ sp_pc = "loop"
    /\ sp_i > Len(sp_plan.windows)
    /\ sp_pc' = "done"
    /\ UNCHANGED <<sp_host, sp_env, sp_run, sp_first, sp_cfg, sp_raster, sp_plan, sp_i,
                   sp_events, sp_out, sp_count, sp_faults, notSplit>>

NextSplit ==
    \/ SplitOpen
    \/ SplitTile
    \/ SplitFinish

SpecSplit == InitSplit /\ [][NextSplit]_vars

\* small rasters as wide and about as high as the bounds allow
InitResplit ==
    \E cfg \in SplitConfigs(MaxGridSize), h \in (MaxHeight - 1)..MaxHeight,
       faults \in 0..MaxFaults :
       \E nz \in Rectangles(MaxWidth, h) :
          SplitStart(cfg, [height |-> h, width |-> MaxWidth, nz |-> nz], faults)

\* lines 25-28: split_terrain is called again on the same splitter, input file
\* and output directory (mkdir with exist_ok)
SplitAgain ==
    /\ sp_pc = "done"
    /\ sp_run = 1
    /\ sp_first' = sp_out
    /\ sp_run' = 2
    /\ sp_pc' = "init"
    /\ sp_plan' = <<>>
    /\ sp_i' = 0
    /\ sp_count' = 0
    /\ UNCHANGED <<sp_host, sp_env, sp_cfg, sp_raster, sp_events, sp_out, sp_faults, notSplit>>

NextResplit ==
    \/ SplitOpen
    \/ SplitTile
    \/ SplitFinish
    \/ SplitAgain

SpecResplit == InitResplit /\ [][NextResplit]_vars

MaxCpus == 4

\* the hosts a splitter is constructed on: cpu_fraction from 1/8 to 1
Hosts == {[cpu_count |-> c, eighths |-> e] : c \in 1..MaxCpus, e \in 1..FractionSteps}

\* before TerrainSplitter(...) is constructed
InitSplitHost ==
    /\ EstIdle /\ MetIdle /\ AnaIdle /\ IdIdle
    /\ JobIdle
    /\ PipeIdle
    /\ StepIdle
    /\ sp_pc = "new"
    /\ sp_host \in Hosts
    /\ sp_env = InheritedEnv
    /\ sp_cfg \in SplitConfigs(MaxGridSize)
    /\ sp_raster = [height |-> MaxHeight, width |-> MaxWidth,
                    nz |-> [x0 |-> 0, x1 |-> MaxWidth, y0 |-> 0, y1 |-> MaxHeight]]
    /\ sp_run = 1 /\ sp_first = {}
    /\ sp_plan = <<>> /\ sp_i = 0 /\ sp_events = <<>> /\ sp_out = {}
    /\ sp_count = 0 /\ sp_faults = 0

\* lines 12-23: TerrainSplitter.__init__
SplitConstruct ==
    /\ sp_pc = "new"
    /\ sp_env' = EnvAfterInit(sp_env, NCpus(sp_host))
    /\ sp_pc' = "init"
    /\ UNCHANGED <<sp_host, sp_run, sp_first, sp_cfg, sp_raster, sp_plan, sp_i, sp_events,
                   sp_out, sp_count, sp_faults, notSplit>>

\* lines 54-55: the windows are visited by two nested loops in the calling
\* thread, so one tile is in progress at a time
SplitPoolSize == 1

NextSplitHost ==
    \/ SplitConstruct
    \/ SplitOpen
    \/ SplitTile
    \/ SplitFinish

SpecSplitHost == InitSplitHost /\ [][NextSplitHost]_vars

(***************************************************************************)
(* The step of the tiling loops, splitter.py lines 35-55, for every        *)
(* configuration with 0 <= overlap < grid_size: the small ones as they     *)
(* are, and grid_size = 2^exp with overlap = grid_size - 1 for exponents   *)
(* around the 53 bits of a binary64 significand.                           *)
(***************************************************************************)
MaxStepExp == 55

StepExps == DoubleFractionBits .. MaxStepExp

StepConfigs ==
    {[kind |-> "int", grid_size |-> n, overlap |-> k, exp |-> 0] :
        <<n, k>> \in {q \in (1..MaxGeomGrid) \X (0..MaxGeomGrid - 1) : q[2] < q[1]}}
    \cup {[kind |-> "pow2", grid_size |-> 0, overlap |-> 0, exp |-> e] : e \in StepExps}

\* line 35: min(self.grid_size, height); a raster is lower than 2^exp
StepGridSize(cfg, height) ==
    IF cfg.kind = "pow2" THEN height ELSE AdjustedGridSize(cfg.grid_size, height)

\* line 40 for overlap = 2^e - 1, grid_size = 2^e: the quotient 1 - 2^-e
\* needs e significand bits; with more than 53 it rounds to 1.0 (at e = 54
\* it is the tie between 1 - 2^-53 and 1.0, and 1.0 is the even one)
RatioRoundsToOne(e) == e > DoubleFractionBits + 1

\* line 41 for that ratio and 1 <= S < 2^e: S * 1.0 is S; otherwise the
\* product S - S * 2^-e is more than half an ulp below S and stays below it
AdjustedOverlapPow2(S, e) == IF RatioRoundsToOne(e) THEN S ELSE S - 1

StepOverlap(cfg, size) ==
    IF cfg.kind = "pow2" THEN AdjustedOverlapPow2(size, cfg.exp)
    ELSE AdjustedOverlap(size, cfg.overlap, cfg.grid_size)

\* lines 48-55: `// step_size` raises ZeroDivisionError for step 0;
\* otherwise the loops visit the windows of the two ranges
StepPlan(cfg, height, width) ==
    LET size == StepGridSize(cfg, height)
        ovl  == StepOverlap(cfg, size)
        step == StepSize(size, ovl)
    IN  [size |-> size, overlap |-> ovl, step |-> step,
         windows |-> IF step = 0 THEN 0
                     ELSE Len(PyRange(0, height - size + 1, step))
                              * Len(PyRange(0, width - size + 1, step))]

InitStep ==
    /\ st_pc = "init"
    /\ \E cfg \in StepConfigs :
          \E height \in 1..MaxGeomGrid + 1 :
             \E width \in {1, height, MaxGeomGrid + MaxExtraWidth} :
                st_in = [cfg |-> cfg, height |-> height, width |-> width]
    /\ st_out = <<>>
    /\ SplitIdle /\ EstIdle /\ MetIdle /\ AnaIdle
    /\ JobIdle
    /\ PipeIdle
    /\ IdIdle

\* split_terrain up to the end of its loops, the tile I/O left out
StepRun ==
    /\ st_pc = "init"
    /\ st_out' = StepPlan(st_in.cfg, st_in.height, st_in.width)
    /\ st_pc' = IF st_out'.step = 0 THEN "raised" ELSE "done"
    /\ UNCHANGED <<st_in, notStep>>

SpecStep == InitStep /\ [][StepRun]_vars

(***************************************************************************)
(* The command line pipeline: src/main.py                                  *)
(***************************************************************************)
MaxPipeTiles == 3

\* main.py lines 96-136: the sub-commands
Commands == {"complete", "split", "metrics", "analyze"}

\* generator.py line 32: def process_directory(self, input_dir), the
\* parameters a caller can name
ProcessDirectoryParams == {"input_dir"}

\* main.py line 45: generator.process_directory(input_dir, cpu_fraction=cpu_fraction)
GenerateMetricsKeywords == {"cpu_fraction"}

\* Python binds a call only if every keyword names a parameter; otherwise the
\* call raises TypeError before the body runs
CallBinds(keywords, params) == keywords \subseteq params

\* the tiles grid_0000i_00000.tif, i < n
PipeTiles(n) == {GridId(i, 0) : i \in 0 .. n - 1}

\* one run of main.py: the command, the tiles the raster gives (for split) or
\* the directory holds (for metrics and analyze), whether the splitter raises,
\* and whether the directory held records already
PipeRuns ==
    [command : Commands, tiles : 0..MaxPipeTiles, split_raises : BOOLEAN,
     had_records : BOOLEAN]

\* the stage a command starts with (lines 148-161)
FirstStage(command) ==
    CASE command \in {"complete", "split"} -> "split"
      [] command = "metrics" -> "metrics"
      [] OTHER -> "analysis"

\* lines 138-145: the arguments are parsed, logging is set up
InitPipe ==
    /\ pl_pc = "parsed"
    /\ pl_in \in PipeRuns
    /\ pl_trace = <<>>
    /\ pl_tiles = IF FirstStage(pl_in.command) = "split" THEN {} ELSE PipeTiles(pl_in.tiles)
    /\ pl_records = IF pl_in.had_records /\ FirstStage(pl_in.command) # "split"
                    THEN PipeTiles(pl_in.tiles) ELSE {}
    /\ pl_exit = 0
    /\ SplitIdle /\ EstIdle /\ MetIdle /\ AnaIdle
    /\ JobIdle
    /\ IdIdle /\ StepIdle /\ JobIdle

\* lines 150, 155 and 26-38: split_terrain(args)
PipeSplit ==
    /\ pl_pc = "parsed"
    /\ FirstStage(pl_in.command) = "split"
    /\ pl_trace' = Append(pl_trace, "split")
    /\ IF pl_in.split_raises
       THEN pl_pc' = "raised" /\ pl_tiles' = pl_tiles
       ELSE pl_pc' = "split" /\ pl_tiles' = pl_tiles \cup PipeTiles(pl_in.tiles)
    /\ UNCHANGED <<pl_in, pl_records, pl_exit, notPipe>>

\* lines 151, 158 and 40-45: generate_metrics(input_dir, cpu_fraction)
PipeMetrics ==
    /\ \/ pl_pc = "split" /\ pl_in.command = "complete"
       \/ pl_pc = "parsed" /\ pl_in.command = "metrics"
    /\ pl_trace' = Append(pl_trace, "metrics")
    /\ IF CallBinds(GenerateMetricsKeywords, ProcessDirectoryParams)
       THEN pl_pc' = "metrics" /\ pl_records' = pl_records \cup pl_tiles
       ELSE pl_pc' = "raised" /\ pl_records' = pl_records
    /\ UNCHANGED <<pl_in, pl_tiles, pl_exit, notPipe>>

\* lines 152, 161 and 47-74: analyze_results logs what analyze_main raises
PipeAnalyze ==
    /\ \/ pl_pc = "metrics" /\ pl_in.command = "complete"
       \/ pl_pc = "parsed" /\ pl_in.command = "analyze"
    /\ pl_trace' = Append(pl_trace, "analysis")
    /\ pl_pc' = "analysis"
    /\ UNCHANGED <<pl_in, pl_tiles, pl_records, pl_exit, notPipe>>

\* the end of main: the command's last stage returned (status 0), or lines
\* 163-167 after an exception: sys.exit(1)
PipeExit ==
    /\ \/ pl_pc = "raised"
       \/ pl_pc = "analysis"
       \/ pl_pc = "split" /\ pl_in.command = "split"
       \/ pl_pc = "metrics" /\ pl_in.command = "metrics"
    /\ pl_exit' = IF pl_pc = "raised" THEN 1 ELSE 0
    /\ pl_pc' = "exited"
    /\ UNCHANGED <<pl_in, pl_trace, pl_tiles, pl_records, notPipe>>

NextPipe ==
    \/ PipeSplit
    \/ PipeMetrics
    \/ PipeAnalyze
    \/ PipeExit

SpecPipe == InitPipe /\ [][NextPipe]_vars

(***************************************************************************)
(* One job of the web backend: backend/app.py (upload_file,                *)
(* get_job_status, get_job_results) and the pipeline it runs through       *)
(* backend/cli.py.  Dimensions are in units of 0.005, r_squared in         *)
(* hundredths.                                                             *)
(***************************************************************************)
MaxJobTiles == 2

\* what a tile brings: the estimator refuses it, or its record is
\* [fractal_dimension, r_squared]
JobTileKinds ==
    {[fails |-> TRUE, fd |-> 0, r2 |-> 0], [fails |-> FALSE, fd |-> 300, r2 |-> 95],
     [fails |-> FALSE, fd |-> 100, r2 |-> 95], [fails |-> FALSE, fd |-> 100, r2 |-> 60]}

\* app.py lines 154-162: the defaults of the form fields
DefaultParams == [fd_min |-> 0, fd_max |-> 160, r2_min |-> 80, max_samples |-> 16]

JobFile(stem, ext) == [stem |-> stem, ext |-> ext]

ParamsFile == JobFile(<<"params">>, "json")

SummaryFile == JobFile(<<"filtered_results">>, "json")

\* the i-th tile of the job is grid_0000(i-1)_00000
JobTileFiles(tiles, ext) == {JobFile(GridId(i - 1, 0), ext) : i \in 1..Len(tiles)}

\* job_results_dir.glob('*.json') without params.json (lines 241-242, 270-271)
MetricsFiles(dir) == {f \in dir : f.ext = "json" /\ f # ParamsFile}

\* get_job_status, lines 224-254
StatusResponse(pc, dir) ==
    IF pc = "received" THEN [code |-> 404, status |-> "not_found", metrics_count |-> 0]
    ELSE IF ParamsFile \notin dir THEN [code |-> 500, status |-> "error", metrics_count |-> 0]
    ELSE IF MetricsFiles(dir) = {}
    THEN [code |-> 200, status |-> "processing", metrics_count |-> 0]
    ELSE [code |-> 200, status |-> "complete",
          metrics_count |-> Cardinality(MetricsFiles(dir))]

\* lines 292-298: the sort key of a loaded file; a file without 'metrics' has (0, 0)
SortKey(f, tiles) ==
    IF \E i \in 1..Len(tiles) : f.stem = GridId(i - 1, 0)
    THEN LET i == CHOOSE j \in 1..Len(tiles) : f.stem = GridId(j - 1, 0)
         IN  <<tiles[i].fd, tiles[i].r2>>
    ELSE <<0, 0>>

KeyAtLeast(a, b) == a[1] > b[1] \/ (a[1] = b[1] /\ a[2] >= b[2])

\* lines 311-312: the first max_samples files of the descending sort
TopResults(files, tiles, max_samples) ==
    {top \in SUBSET files :
        /\ Cardinality(top) = Min(max_samples, Cardinality(files))
        /\ \A a \in top, b \in files \ top : KeyAtLeast(SortKey(a, tiles), SortKey(b, tiles))}

\* get_job_results, lines 260-320
ResultsResponses(pc, dir, tiles) ==
    IF pc = "received"
    THEN {[code |-> 404, status |-> "not_found", total_grids |-> 0, results |-> {}]}
    ELSE IF MetricsFiles(dir) = {}
    THEN {[code |-> 404, status |-> "processing", total_grids |-> 0, results |-> {}]}
    ELSE {[code |-> 200, status |-> "success",
           total_grids |-> Cardinality(MetricsFiles(dir)),
           results |-> {f.stem : f \in top}] :
             top \in TopResults(MetricsFiles(dir), tiles, DefaultParams.max_samples)}

\* cli.py lines 85-97: the records that meet the conditions
Filtered(tiles) ==
    {i \in 1..Len(tiles) :
        /\ ~tiles[i].fails
        /\ tiles[i].fd >= DefaultParams.fd_min /\ tiles[i].fd <= DefaultParams.fd_max
        /\ tiles[i].r2 >= DefaultParams.r2_min}

\* an upload request arrives: with or without an acceptable file
InitJob ==
    /\ jb_pc = "received"
    /\ \E n \in 0..MaxJobTiles :
          \E tiles \in [1..n -> JobTileKinds] :
             \E upload \in {"ok", "no_file", "bad_extension"}, split_raises \in BOOLEAN :
                jb_in = [upload |-> upload, tiles |-> tiles, split_raises |-> split_raises]
    /\ jb_dir = {} /\ jb_done = {} /\ jb_exit = 0 /\ jb_resp = 0
    /\ jb_poll = <<>> /\ jb_res = <<>>
    /\ SplitIdle /\ EstIdle /\ MetIdle /\ AnaIdle
    /\ IdIdle /\ StepIdle /\ PipeIdle

\* lines 123-134: the request is refused with 400, no job is made
JobReject ==
    /\ jb_pc = "received" /\ jb_in.upload # "ok"
    /\ jb_pc' = "refused" /\ jb_resp' = 400
    /\ UNCHANGED <<jb_in, jb_dir, jb_done, jb_exit, jb_poll, jb_res, notJob>>

\* lines 136-149: the job directories are made, the upload is saved
JobMakeDirs ==
    /\ jb_pc = "received" /\ jb_in.upload = "ok"
    /\ jb_pc' = "dirs"
    /\ UNCHANGED <<jb_in, jb_dir, jb_done, jb_exit, jb_resp, jb_poll, jb_res, notJob>>

\* lines 153-166: params.json is written
JobParams ==
    /\ jb_pc = "dirs"
    /\ jb_dir' = jb_dir \cup {ParamsFile}
    /\ jb_pc' = "split"
    /\ UNCHANGED <<jb_in, jb_done, jb_exit, jb_resp, jb_poll, jb_res, notJob>>

\* app.py lines 169-196 start `cli.py complete -o job_results_dir`; cli.py line
\* 234: the split stage puts the tiles into the job results directory, or raises
JobSplit ==
    /\ jb_pc = "split"
    /\ IF jb_in.split_raises
       THEN jb_pc' = "exited" /\ jb_exit' = 1 /\ jb_dir' = jb_dir
       ELSE jb_pc' = "metrics" /\ jb_exit' = 0
            /\ jb_dir' = jb_dir \cup JobTileFiles(jb_in.tiles, "tif")
    /\ UNCHANGED <<jb_in, jb_done, jb_resp, jb_poll, jb_res, notJob>>

\* cli.py line 235, generator.py lines 35-63: process_file of one tile, in any
\* order (the pool); a tile the estimator refuses gets no record
JobMetricsFile(i) ==
    /\ jb_pc = "metrics" /\ i \notin jb_done
    /\ jb_done' = jb_done \cup {i}
    /\ jb_dir' = IF jb_in.tiles[i].fails THEN jb_dir
                 ELSE jb_dir \cup {JobFile(GridId(i - 1, 0), "json")}
    /\ UNCHANGED <<jb_pc, jb_in, jb_exit, jb_resp, jb_poll, jb_res, notJob>>

\* generator.py lines 73-82: the pool is drained, process_directory returns
JobMetricsEnd ==
    /\ jb_pc = "metrics" /\ jb_done = DOMAIN jb_in.tiles
    /\ jb_pc' = "analysis"
    /\ UNCHANGED <<jb_in, jb_dir, jb_done, jb_exit, jb_resp, jb_poll, jb_res, notJob>>

\* cli.py lines 236 and 99-150: analyze_results returns early when nothing meets
\* the conditions (line 113); otherwise it writes fractal_histogram.png and
\* filtered_results.json into --plot-output, the job results directory
JobAnalyze ==
    /\ jb_pc = "analysis"
    /\ jb_dir' = IF Filtered(jb_in.tiles) = {} THEN jb_dir
                 ELSE jb_dir \cup {JobFile(<<"fractal_histogram">>, "png"), SummaryFile}
    /\ jb_pc' = "exited"
    /\ UNCHANGED <<jb_in, jb_done, jb_exit, jb_resp, jb_poll, jb_res, notJob>>

\* app.py lines 198-218: subprocess.run returned, or raised CalledProcessError
JobReturn ==
    /\ jb_pc = "exited"
    /\ jb_resp' = IF jb_exit = 0 THEN 200 ELSE 500
    /\ jb_pc' = "returned"
    /\ UNCHANGED <<jb_in, jb_dir, jb_done, jb_exit, jb_poll, jb_res, notJob>>

\* GET /api/jobs/<job_id>/status, served while the upload request is running
\* or after it
JobStatus ==
    /\ jb_pc # "refused"
    /\ jb_poll' = [at |-> jb_pc, answer |-> StatusResponse(jb_pc, jb_dir)]
    /\ UNCHANGED <<jb_pc, jb_in, jb_dir, jb_done, jb_exit, jb_resp, jb_res, notJob>>

\* GET /api/jobs/<job_id>/results
JobResults ==
    /\ jb_pc # "refused"
    /\ \E answer \in ResultsResponses(jb_pc, jb_dir, jb_in.tiles) :
          jb_res' = [at |-> jb_pc, answer |-> answer]
    /\ UNCHANGED <<jb_pc, jb_in, jb_dir, jb_done, jb_exit, jb_resp, jb_poll, notJob>>

NextJob ==
    \/ JobReject
    \/ JobMakeDirs
    \/ JobParams
    \/ JobSplit
    \/ \E i \in DOMAIN jb_in.tiles : JobMetricsFile(i)
    \/ JobMetricsEnd
    \/ JobAnalyze
    \/ JobReturn
    \/ JobStatus
    \/ JobResults

SpecJob == InitJob /\ [][NextJob]_vars

(***************************************************************************)
(* Box-counting estimator: xenarch_mk2/metrics/fractal.py                  *)
(***************************************************************************)
MaxDim == 16

\* An image is [h, w, kind]: IsNaN tells the cells that hold nan, Val is the
\* value of the others (row r, column c).
ImageKinds == {"nan", "flat", "flat_nan", "ramp", "ramp_nan", "spike", "steps"}

IsNaN(img, r, c) ==
    CASE img.kind = "nan"      -> TRUE
      [] img.kind = "flat_nan" -> r = 0 /\ c = 0
      [] img.kind = "ramp_nan" -> r = c
      [] OTHER                 -> FALSE

Val(img, r, c) ==
    CASE img.kind \in {"flat", "flat_nan"} -> 7
      [] img.kind \in {"ramp", "ramp_nan"} -> r + c
      [] img.kind = "spike" -> IF r = img.h - 1 /\ c = img.w - 1 THEN 1 ELSE 0
      [] img.kind = "steps" -> r \div 2
      [] OTHER -> 0

Images(maxDim) ==
    {[h |-> d[1], w |-> d[2], kind |-> k] :
        d \in {q \in (0..maxDim) \X (0..maxDim) : q[2] \in {q[1], q[1] + 1, 0}
                                                   \/ q[1] = 0},
        k \in ImageKinds}

Cells(img) == (0 .. img.h - 1) \X (0 .. img.w - 1)

\* image.size
Size(img) == img.h * img.w

\* np.all(np.isnan(image)): true of an array without elements
AllNaN(img) == \A p \in Cells(img) : IsNaN(img, p[1], p[2])

SetMin(S) == CHOOSE m \in S : \A x \in S : m <= x

SetMax(S) == CHOOSE m \in S : \A x \in S : m >= x

Numbers(img) == {Val(img, p[1], p[2]) : p \in {q \in Cells(img) : ~IsNaN(img, q[1], q[2])}}

\* np.nanmax(image) - np.nanmin(image)
ValueRange(img) == SetMax(Numbers(img)) - SetMin(Numbers(img))

\* lines 19-20: (image - nanmin) / (nanmax - nanmin), then nan_to_num, as the
\* array of the numerators: the value of a cell is NormalizedImage / ValueRange.
\* With nanmax = nanmin every quotient is 0/0 = nan, and nan_to_num maps nan to 0.
NormalizedImage(img) ==
    LET lo    == SetMin(Numbers(img))
        range == ValueRange(img)
    IN  [p \in Cells(img) |->
            IF IsNaN(img, p[1], p[2]) \/ range = 0 THEN 0 ELSE Val(img, p[1], p[2]) - lo]

\* line 27: image[:shape[0]*box_size, :shape[1]*box_size].reshape(shape) puts
\* into boxes[i, j] the box_size^2 consecutive elements, in row-major order of
\* the cropped array, that start at element (i * shape[1] + j) * box_size^2.
BoxCells(img, box_size, i, j) ==
    LET cols  == (img.w \div box_size) * box_size
        first == (i * (img.w \div box_size) + j) * box_size * box_size
    IN  {<<f \div cols, f % cols>> : f \in first .. first + box_size * box_size - 1}

\* line 30: np.ptp(boxes, axis=(-1,-2)), times ValueRange
Variation(norm, cells) ==
    LET vs == {norm[p] : p \in cells}
    IN  SetMax(vs) - SetMin(vs)

RECURSIVE SumTo(_, _)
SumTo(f, n) == IF n < 0 THEN 0 ELSE f[n] + SumTo(f, n - 1)

\* floor(sqrt(v)), by bisection on the bits of the root
RECURSIVE ISqrtBits(_, _, _)
ISqrtBits(v, a, bit) ==
    IF bit = 0 THEN a
    ELSE IF (a + bit) * (a + bit) <= v THEN ISqrtBits(v, a + bit, bit \div 2)
         ELSE ISqrtBits(v, a, bit \div 2)

ISqrt(v) == ISqrtBits(v, 0, 16384)

\* Size^2 times the variance of the normalized image, times ValueRange^2
ScaledVariance(img, norm) ==
    LET rowSum == [r \in 0 .. img.h - 1 |->
                      SumTo([c \in 0 .. img.w - 1 |-> norm[<<r, c>>]], img.w - 1)]
        rowSq  == [r \in 0 .. img.h - 1 |->
                      SumTo([c \in 0 .. img.w - 1 |-> norm[<<r, c>>] * norm[<<r, c>>]],
                            img.w - 1)]
        total  == SumTo(rowSum, img.h - 1)
        sq     == SumTo(rowSq, img.h - 1)
    IN  Size(img) * sq - total * total

\* lines 30-32: variation > np.nanstd(image) * 0.1, i.e.
\* 10 * Size * variation > sqrt(ScaledVariance), both sides integers scaled alike
ExceedsThreshold(variation, size, scaledVariance) ==
    10 * size * variation > ISqrt(scaledVariance)

\* the zero-box test of line 24 made on the columns only
NoBoxesColumnsOnly(shape) == shape[2] = 0

\* line 24: any(s == 0 for s in shape), shape = (h//bs, w//bs, bs, bs)
NoBoxes(shape) == \E k \in 1..4 : shape[k] = 0

BoxShape(img, box_size) ==
    <<img.h \div box_size, img.w \div box_size, box_size, box_size>>

\* line 30 raises (logged and re-raised by lines 34-36) when np.ptp reduces over
\* an array without boxes that line 24 let through
BoxCountRaises(img, box_size) ==
    /\ ~AllNaN(img)
    /\ ~NoBoxes(BoxShape(img, box_size))
    /\ (BoxShape(img, box_size)[1] = 0 \/ BoxShape(img, box_size)[2] = 0)

\* box_count(image, box_size), lines 12-36, for box_size >= 1: the count returned
BoxCount(img, box_size) ==
    IF AllNaN(img) THEN 0
    ELSE LET shape == BoxShape(img, box_size)
         IN  IF NoBoxes(shape) THEN 0
             ELSE LET norm == NormalizedImage(img)
                      sv   == ScaledVariance(img, norm)
                  IN  Cardinality({b \in (0 .. shape[1] - 1) \X (0 .. shape[2] - 1) :
                          ExceedsThreshold(
                              Variation(norm, BoxCells(img, box_size, b[1], b[2])),
                              Size(img), sv)})

\* range(2, max_power) with the stop included
PowerRangeInclusive(max_power) == PyRange(2, max_power + 1, 1)

\* line 47: range(2, max_power)
PowerRange(max_power) == PyRange(2, max_power, 1)

\* box sizes from 2 up: range(1, max_power)
BoxSizesFromTwo(img) ==
    LET max_power == Log2Floor(Min(img.h, img.w))
        powers    == PyRange(1, max_power, 1)
    IN  [i \in 1..Len(powers) |-> Pow2(powers[i])]

\* lines 46-47: max_power = int(np.log2(min(image.shape))), box_sizes = [2**i ...]
BoxSizes(img) ==
    LET max_power == Log2Floor(Min(img.h, img.w))
        powers    == PowerRange(max_power)
    IN  [i \in 1..Len(powers) |-> Pow2(powers[i])]

\* a single regression point is accepted
TooFewCountsNone(counts) == Len(counts) < 1

\* line 61: len(counts) < 2
TooFewCounts(counts) == Len(counts) < 2

\* lines 55-59: the indexes, in order, of the counts that are > 0
RECURSIVE PositiveIndexes(_, _)
PositiveIndexes(counts, i) ==
    IF i > Len(counts) THEN <<>>
    ELSE IF counts[i] > 0 THEN <<i>> \o PositiveIndexes(counts, i + 1)
    ELSE PositiveIndexes(counts, i + 1)

\* compute_fractal_dimension(image), lines 39-74: what it raises, or the
\* points it hands to linregress
Estimate(img) ==
    IF Size(img) = 0
    THEN [status |-> "raised", error |-> "Empty image provided",
          box_sizes |-> <<>>, valid_sizes |-> <<>>, counts |-> <<>>]
    ELSE LET sizes  == BoxSizes(img)
             all    == [i \in 1..Len(sizes) |-> BoxCount(img, sizes[i])]
             kept   == PositiveIndexes(all, 1)
             valid  == [i \in 1..Len(kept) |-> sizes[kept[i]]]
             counts == [i \in 1..Len(kept) |-> all[kept[i]]]
         IN  IF sizes = <<>>
             THEN [status |-> "raised", error |-> "No valid box sizes for image dimensions",
                   box_sizes |-> sizes, valid_sizes |-> <<>>, counts |-> <<>>]
             ELSE IF \E i \in 1..Len(sizes) : BoxCountRaises(img, sizes[i])
             THEN [status |-> "raised", error |-> "box_count",
                   box_sizes |-> sizes, valid_sizes |-> <<>>, counts |-> <<>>]
             ELSE IF TooFewCounts(counts)
             THEN [status |-> "raised", error |-> "Not enough valid counts for regression",
                   box_sizes |-> sizes, valid_sizes |-> valid, counts |-> counts]
             ELSE [status |-> "returned", error |-> "",
                   box_sizes |-> sizes, valid_sizes |-> valid, counts |-> counts]

\* what linregress can return for the points handed to it: -slope in units of
\* 0.005 and r_value**2 in hundredths, or nan
FdValues == {295, 300, 380}

R2Values == {40, 60, 95}

Fits ==
    {[fd |-> f, r2 |-> q, nan |-> FALSE] : f \in FdValues, q \in R2Values}
        \cup {[fd |-> 0, r2 |-> 0, nan |-> TRUE]}

NoRecord == [made |-> FALSE, fd |-> 0, r2 |-> 0, nan |-> FALSE]

\* MetricsGenerator.compute_metrics, generator.py lines 15-30: the estimator's
\* exception is logged and raised again, otherwise its pair goes into the record
ComputeMetrics(est, fit) ==
    IF est.status = "raised" THEN [status |-> "raised", record |-> NoRecord]
    ELSE [status |-> "returned",
          record |-> [made |-> TRUE, fd |-> fit.fd, r2 |-> fit.r2, nan |-> fit.nan]]

\* a keep rule that lets r_squared = 0.5 pass
KeepsFitAtLeast(fit) == ~fit.nan /\ fit.r2 >= 50

\* terrain.py line 36: not np.isnan(fractal_dim) and r_squared > 0.5
KeepsFit(fit) == ~fit.nan /\ fit.r2 > 50

\* TerrainAnalyzer.process_chunk, terrain.py lines 28-53, for one grid: skipped,
\* failed (the exception of lines 51-53), dropped (line 36 false) or kept
ProcessGrid(img, est, fit) ==
    IF Size(img) = 0 \/ AllNaN(img) THEN [status |-> "skipped", record |-> NoRecord]
    ELSE IF est.status = "raised" THEN [status |-> "failed", record |-> NoRecord]
    ELSE IF KeepsFit(fit)
    THEN [status |-> "kept",
          record |-> [made |-> TRUE, fd |-> fit.fd, r2 |-> fit.r2, nan |-> fit.nan]]
    ELSE [status |-> "dropped", record |-> NoRecord]

InitEst ==
    /\ es_pc = "init"
    /\ es_image \in Images(MaxDim)
    /\ es_call = <<>>
    /\ es_result = <<>>
    /\ SplitIdle /\ MetIdle /\ AnaIdle /\ IdIdle
    /\ JobIdle
    /\ PipeIdle
    /\ StepIdle

\* FractalAnalyzer.box_count(image, box_size)
BoxCountCall ==
    /\ es_pc = "init"
    /\ \E box_size \in 1 .. MaxDim + 1 :
          /\ es_call' = [op |-> "box_count", box_size |-> box_size]
          /\ es_result' = [raised |-> BoxCountRaises(es_image, box_size),
                           count |-> BoxCount(es_image, box_size)]
    /\ es_pc' = "counted"
    /\ UNCHANGED <<es_image, notEst>>

\* FractalAnalyzer.compute_fractal_dimension(image)
EstimateCall ==
    /\ es_pc = "init"
    /\ es_call' = [op |-> "compute_fractal_dimension"]
    /\ es_result' = [est |-> Estimate(es_image)]
    /\ es_pc' = "estimated"
    /\ UNCHANGED <<es_image, notEst>>

\* the Metrics Computer takes the estimator's outcome
MetricsComputerCall ==
    /\ es_pc = "estimated"
    /\ \E fit \in Fits :
          es_result' = [est |-> es_result.est, caller |-> "compute_metrics",
                        out |-> ComputeMetrics(es_result.est, fit)]
    /\ es_pc' = "handled"
    /\ UNCHANGED <<es_image, es_call, notEst>>

\* the Terrain Analyzer takes the estimator's outcome
ProcessGridCall ==
    /\ es_pc = "estimated"
    /\ \E fit \in Fits :
          es_result' = [est |-> es_result.est, caller |-> "process_chunk",
                        out |-> ProcessGrid(es_image, es_result.est, fit)]
    /\ es_pc' = "handled"
    /\ UNCHANGED <<es_image, es_call, notEst>>

NextEst ==
    \/ BoxCountCall
    \/ EstimateCall
    \/ MetricsComputerCall
    \/ ProcessGridCall

SpecEst == InitEst /\ [][NextEst]_vars

(***************************************************************************)
(* Metrics Generator: xenarch_mk2/metrics/generator.py ("mk2", one file    *)
(* after the other) and backend/core/metrics/generator.py ("backend", a    *)
(* pool of worker processes, each running process_file on one file).       *)
(***************************************************************************)
MaxTiles == 3
MaxWorkers == 2

\* the rasters a tile file can hold: one the estimator accepts, one it refuses
TileImages == {[h |-> 16, w |-> 16, kind |-> "ramp"], [h |-> 16, w |-> 16, kind |-> "flat"]}

\* each with what compute_fractal_dimension makes of it
EstimatedTileImages == {[image |-> img, est |-> Estimate(img)] : img \in TileImages}

\* the directory listing: tiles grid_0000i_00000.tif, i < n
TileLists(n) ==
    {[i \in 1..n |-> [stem |-> GridId(i - 1, 0), image |-> f[i].image, est |-> f[i].est]] :
        f \in [1..n -> EstimatedTileImages]}

\* a record file <stem>.json: state "empty" (opened for writing, nothing
\* dumped), "partial" (the dump broke off) or "complete"; run "old" or "this"
RecordFile(stem, state, run) ==
    [stem |-> stem, state |-> state, run |-> run,
     grid_id |-> IF state = "complete" THEN stem ELSE <<>>]

\* open(json_path, 'w') and json.dump replace the file of that name
PutRecord(records, rec) == {r \in records : r.stem # rec.stem} \cup {rec}

\* the first stage of one file: read (rasterio.open, src.read), compute_metrics
\* and, in the backend, the result dict with its metadata lookups (lines 37-49);
\* then open(json_path, 'w').  mk2 opens the file before it builds the dict
\* (lines 46-56).
FirstStageFaults(variant) ==
    IF variant = "backend" THEN {"none", "read", "metadata"} ELSE {"none", "read"}

FirstStageFails(tile, fault) == fault # "none" \/ tile.est.status = "raised"

\* the second stage: (mk2: the dict with its metadata lookups, then) json.dump
SecondStageFaults(variant) ==
    IF variant = "backend" THEN {"none", "dump"} ELSE {"none", "metadata", "dump"}

RecordAfterDump(stem, fault) ==
    IF fault = "none" THEN RecordFile(stem, "complete", "this")
    ELSE IF fault = "metadata" THEN RecordFile(stem, "empty", "this")
    ELSE RecordFile(stem, "partial", "this")

\* a failed file stops the whole run
MgPcAfterRaise(failed) == IF failed THEN "raised" ELSE "run"

\* mk2 lines 60-62 (except ... continue), backend lines 61-63 (return None):
\* the exception of one file is logged and the run goes on
MgPcAfter(failed) == "run"

\* which file may be taken up next: mk2 walks the listing in order, one file
\* at a time; the backend's pool takes any waiting file while a worker is free
MayTake(i) ==
    /\ mg_state[i] = "pending"
    /\ Cardinality({j \in DOMAIN mg_state : mg_state[j] = "writing"}) < mg_cfg.workers
    /\ (mg_cfg.variant = "mk2" => \A j \in 1..i - 1 : mg_state[j] \in {"ok", "failed"})

InitMet ==
    /\ mg_pc = "init"
    /\ mg_cfg \in {[variant |-> "mk2", workers |-> 1]}
                    \cup {[variant |-> "backend", workers |-> k] : k \in 1..MaxWorkers}
    /\ \E n \in 0..MaxTiles :
          /\ mg_tiles \in TileLists(n)
          /\ mg_state = [i \in 1..n |-> "pending"]
          /\ mg_results = [i \in 1..n |-> "pending"]
          /\ \E old \in BOOLEAN :
                mg_records = IF old THEN {RecordFile(GridId(i - 1, 0), "complete", "old") : i \in 1..n}
                             ELSE {}
    /\ mg_successful = 0
    /\ SplitIdle /\ EstIdle /\ AnaIdle /\ IdIdle
    /\ JobIdle
    /\ PipeIdle
    /\ StepIdle

\* process_directory: list the directory (mk2 line 36, backend lines 68-71)
MgList ==
    /\ mg_pc = "init"
    /\ mg_pc' = "run"
    /\ UNCHANGED <<mg_cfg, mg_tiles, mg_state, mg_records, mg_results, mg_successful, notMet>>

\* one file, up to open(json_path, 'w')
MgCompute(i) ==
    /\ mg_pc = "run"
    /\ MayTake(i)
    /\ \E fault \in FirstStageFaults(mg_cfg.variant) :
          LET failed == FirstStageFails(mg_tiles[i], fault)
          IN  /\ mg_state' = [mg_state EXCEPT ![i] = IF failed THEN "failed" ELSE "writing"]
              /\ mg_results' = [mg_results EXCEPT ![i] = IF failed THEN "None" ELSE @]
              /\ mg_records' = IF failed THEN mg_records
                               ELSE PutRecord(mg_records,
                                              RecordFile(mg_tiles[i].stem, "empty", "this"))
              /\ mg_pc' = MgPcAfter(failed)
    /\ UNCHANGED <<mg_cfg, mg_tiles, mg_successful, notMet>>

\* one file, from the opened record file to the end of json.dump
MgDump(i) ==
    /\ mg_pc = "run"
    /\ mg_state[i] = "writing"
    /\ \E fault \in SecondStageFaults(mg_cfg.variant) :
          /\ mg_records' = PutRecord(mg_records, RecordAfterDump(mg_tiles[i].stem, fault))
          /\ mg_state' = [mg_state EXCEPT ![i] = IF fault = "none" THEN "ok" ELSE "failed"]
          /\ mg_results' = [mg_results EXCEPT ![i] = IF fault = "none" THEN "result" ELSE "None"]
          /\ mg_pc' = MgPcAfter(fault # "none")
    /\ UNCHANGED <<mg_cfg, mg_tiles, mg_successful, notMet>>

\* the listing is used up (backend lines 80-82: successful = [r ... is not None])
MgFinish ==
    /\ mg_pc = "run"
    /\ \A i \in DOMAIN mg_state : mg_state[i] \in {"ok", "failed"}
    /\ mg_successful' = Cardinality({i \in DOMAIN mg_results : mg_results[i] # "None"})
    /\ mg_pc' = "done"
    /\ UNCHANGED <<mg_cfg, mg_tiles, mg_state, mg_records, mg_results, notMet>>

NextMet ==
    \/ MgList
    \/ \E i \in DOMAIN mg_tiles : MgCompute(i)
    \/ \E i \in DOMAIN mg_tiles : MgDump(i)
    \/ MgFinish

SpecMet == InitMet /\ [][NextMet]_vars

(***************************************************************************)
(* Terrain Analyzer: xenarch_mk2/analyzers/terrain.py                      *)
(***************************************************************************)
MaxTypical == 16

\* TerrainAnalyzer(grid_size, chunk_size) and the raster it is run on: grids
\* large enough for the estimator, and small ones
AnalyzerRuns ==
    {[grid_size |-> g, chunk_size |-> c, height |-> h, width |-> w] :
        g \in {8, 16}, c \in {16, 32}, h \in {16, 32}, w \in {16, 80}}
    \cup
    {[grid_size |-> g, chunk_size |-> c, height |-> h, width |-> w] :
        g \in {1, 3}, c \in {1, 2}, h \in {1, 3}, w \in {1, 4}}

\* line 20: stride = max(self.grid_size // 4, 1)
Stride(grid_size) == Max(grid_size \div 4, 1)

\* the loops of lines 23-24 with stops one stride further
ChunkGridsPastEnd(grid_size, height, width, start_y) ==
    LET local == RowWindows(PyRange(0, height - grid_size + 1 + Stride(grid_size),
                                    Stride(grid_size)),
                            PyRange(0, width - grid_size + 1 + Stride(grid_size),
                                    Stride(grid_size)))
    IN  [i \in 1..Len(local) |-> [x |-> local[i].x, abs_y |-> start_y + local[i].y]]

\* lines 23-25: the grids of a chunk of the given height, as (x, abs_y), in
\* the order the loops visit them
ChunkGrids(grid_size, height, width, start_y) ==
    LET local == RowWindows(PyRange(0, height - grid_size + 1, Stride(grid_size)),
                            PyRange(0, width - grid_size + 1, Stride(grid_size)))
    IN  [i \in 1..Len(local) |-> [x |-> local[i].x, abs_y |-> start_y + local[i].y]]

\* the grid_id without the chunk index
AnalyzerGridIdNoChunk(chunk_id, x, abs_y) ==
    <<"grid_">> \o ZeroPad(Digits(x), 5) \o <<"_">> \o ZeroPad(Digits(abs_y), 5)

\* line 26: grid_id = f"chunk_{chunk_id:03d}_grid_{x:05d}_{abs_y:05d}"
AnalyzerGridId(chunk_id, x, abs_y) ==
    <<"chunk_">> \o ZeroPad(Digits(chunk_id), 3) \o <<"_grid_">>
        \o ZeroPad(Digits(x), 5) \o <<"_">> \o ZeroPad(Digits(abs_y), 5)

\* line 34 can return for a grid_size x grid_size grid only if line 61 is passed
CanEstimate(grid_size) ==
    Len(BoxSizes([h |-> grid_size, w |-> grid_size, kind |-> "ramp"])) >= 2

\* the fits of the grids process_chunk keeps (line 36), by kind
KeptFits ==
    <<[fd |-> 380, r2 |-> 95, nan |-> FALSE], [fd |-> 295, r2 |-> 95, nan |-> FALSE],
      [fd |-> 380, r2 |-> 60, nan |-> FALSE], [fd |-> 300, r2 |-> 60, nan |-> FALSE]>>

\* how many grids of each kind a chunk keeps: at most one of each kind but the
\* second, never more than the chunk has grids
KeptCounts(capacity, canEstimate) ==
    IF canEstimate
    THEN {q \in (0..1) \X (0..Min(MaxTypical, capacity)) \X (0..1) \X (0..1) :
              q[1] + q[2] + q[3] + q[4] <= capacity}
    ELSE {<<0, 0, 0, 0>>}

KindOf(q, i) ==
    IF i <= q[1] THEN 1
    ELSE IF i <= q[1] + q[2] THEN 2
    ELSE IF i <= q[1] + q[2] + q[3] THEN 3
    ELSE 4

\* what can go wrong inside save_grid_data (lines 64-88)
SaveFaults == {"none", "tif_open", "tif_write", "json_open", "json_dump"}

\* What one grid of a chunk brings with it: whether its pixels are all NaN,
\* whether the estimator raises on it, the fit it returns otherwise, and the
\* fault save_grid_data meets.
GridInput(all_nan, raised, fit, fault) ==
    [all_nan |-> all_nan, raised |-> raised, fit |-> fit, fault |-> fault]

\* the grids of a chunk that are kept
KeptInputs(q) ==
    [i \in 1..(q[1] + q[2] + q[3] + q[4]) |->
        GridInput(FALSE, FALSE, KeptFits[KindOf(q, i)], "none")]

\* one more grid of the chunk, handled first: all NaN, refused by the estimator,
\* with a fit line 36 rejects, or with a fault while it is saved
OddInputs(canEstimate) ==
    {GridInput(TRUE, FALSE, KeptFits[2], "none"), GridInput(FALSE, TRUE, KeptFits[2], "none")}
    \cup
    (IF canEstimate
     THEN {GridInput(FALSE, FALSE, fit, "none") :
               fit \in {[fd |-> 0, r2 |-> 0, nan |-> TRUE], [fd |-> 295, r2 |-> 40, nan |-> FALSE],
                        [fd |-> 295, r2 |-> 50, nan |-> FALSE]}}
          \cup {GridInput(FALSE, FALSE, KeptFits[2], fault) : fault \in SaveFaults \ {"none"}}
     ELSE {})

\* the grids a chunk handles: the kept ones, or one odd grid followed by at most
\* one kept grid; every other grid of the chunk is all NaN
ChunkInputs(capacity, canEstimate) ==
    {KeptInputs(q) : q \in KeptCounts(capacity, canEstimate)}
    \cup
    {<<odd>> \o KeptInputs(q) :
        odd \in OddInputs(canEstimate),
        q \in {k \in KeptCounts(capacity - 1, canEstimate) :
                  capacity >= 1 /\ k[1] + k[3] + k[4] = 0 /\ k[2] <= 1}}

\* lines 28-36 for one grid: skipped, failed, dropped or kept
GridStatus(grid_size, g) ==
    ProcessGrid([h |-> grid_size, w |-> grid_size,
                 kind |-> IF g.all_nan THEN "nan" ELSE "ramp"],
                [status |-> IF g.raised THEN "raised" ELSE "returned"],
                g.fit).status

GridFile(grid_id, ext, state) == [id |-> grid_id, ext |-> ext, state |-> state]

\* open(path, 'w'): the file of that name is replaced
PutFile(files, file) ==
    {f \in files : ~(f.id = file.id /\ f.ext = file.ext)} \cup {file}

\* save_grid_data, lines 57-88: the TIFF is written and closed, then the JSON
\* is opened and dumped; nothing is removed when a step raises
SaveGridData(files, grid_id, fault) ==
    CASE fault = "tif_open" -> [files |-> files, saved |-> FALSE]
      [] fault = "tif_write" ->
            [files |-> PutFile(files, GridFile(grid_id, "tif", "partial")), saved |-> FALSE]
      [] fault = "json_open" ->
            [files |-> PutFile(files, GridFile(grid_id, "tif", "complete")), saved |-> FALSE]
      [] fault = "json_dump" ->
            [files |-> PutFile(PutFile(files, GridFile(grid_id, "tif", "complete")),
                               GridFile(grid_id, "json", "partial")),
             saved |-> FALSE]
      [] OTHER ->
            [files |-> PutFile(PutFile(files, GridFile(grid_id, "tif", "complete")),
                               GridFile(grid_id, "json", "complete")),
             saved |-> TRUE]

\* lines 37-45: the metrics dict of a kept grid
GridMetrics(grid_id, grid, grid_size, fit) ==
    [grid_id |-> grid_id, position |-> <<grid.x, grid.abs_y>>, size |-> grid_size,
     fractal_dimension |-> fit.fd, r_squared |-> fit.r2]

\* the files of a directory after more files were written into it, in order
PutFiles(files, written) ==
    LET names   == {<<written[i].id, written[i].ext>> : i \in 1..Len(written)}
        last(n) == CHOOSE i \in 1..Len(written) :
                       /\ <<written[i].id, written[i].ext>> = n
                       /\ \A j \in (i + 1)..Len(written) : <<written[j].id, written[j].ext>> # n
    IN  {f \in files : <<f.id, f.ext>> \notin names} \cup {written[last(n)] : n \in names}

\* the files save_grid_data leaves for one grid, TIFF first
SavedFiles(grid_id, fault) ==
    LET left == SaveGridData({}, grid_id, fault).files
    IN  SelectSeq(<<GridFile(grid_id, "tif", "complete"), GridFile(grid_id, "tif", "partial"),
                    GridFile(grid_id, "json", "complete"), GridFile(grid_id, "json", "partial")>>,
                  LAMBDA f : f \in left)

RECURSIVE Flatten(_)
Flatten(seqs) == IF seqs = <<>> THEN <<>> ELSE Head(seqs) \o Flatten(Tail(seqs))

\* process_chunk, lines 17-55: the results it returns and the directory it leaves
ChunkResults(files, chunk_id, grid_size, grids, inputs) ==
    LET handled == [i \in 1..Len(inputs) |->
                       LET grid_id == AnalyzerGridId(chunk_id, grids[i].x, grids[i].abs_y)
                           kept    == GridStatus(grid_size, inputs[i]) = "kept"
                       IN  [metrics |-> GridMetrics(grid_id, grids[i], grid_size, inputs[i].fit),
                            saved   |-> kept /\ SaveGridData({}, grid_id, inputs[i].fault).saved,
                            written |-> IF kept THEN SavedFiles(grid_id, inputs[i].fault)
                                        ELSE <<>>]]
        appended == SelectSeq(handled, LAMBDA g : g.saved)
    IN  [results |-> [i \in 1..Len(appended) |-> appended[i].metrics],
         files |-> PutFiles(files, Flatten([i \in 1..Len(handled) |-> handled[i].written]))]

RECURSIVE SeqSum(_, _)
SeqSum(f, n) == IF n = 0 THEN 0 ELSE f[n] + SeqSum(f, n - 1)

\* the fit threshold of the keep rule (line 36) used for the anomaly rule
GoodFitKeep(r_squared) == r_squared > 50

\* line 116: r['r_squared'] > 0.9
GoodFit(r_squared) == r_squared > 90

\* a deviation of more than one standard deviation
FarFromMeanOneSigma(fd, n, sum, sumsq) ==
    (n * fd - sum) * (n * fd - sum) > n * sumsq - sum * sum

\* a deviation of at least two standard deviations
FarFromMeanAtLeast(fd, n, sum, sumsq) ==
    (n * fd - sum) * (n * fd - sum) >= 4 * (n * sumsq - sum * sum)

\* lines 110-115: abs(fd - mean_fd) > 2 * std_fd with mean_fd = sum / n and
\* std_fd = sqrt(sumsq / n - mean_fd^2) (np.mean, np.std), both sides times n
\* and squared
FarFromMean(fd, n, sum, sumsq) ==
    (n * fd - sum) * (n * fd - sum) > 4 * (n * sumsq - sum * sum)

\* lines 109-129: the ChunkResult of a chunk with results
ChunkResult(chunk_id, start_y, end_y, results) ==
    LET n     == Len(results)
        sum   == SeqSum([i \in 1..n |-> results[i].fractal_dimension], n)
        sumsq == SeqSum([i \in 1..n |-> results[i].fractal_dimension
                                          * results[i].fractal_dimension], n)
    IN  [chunk_id |-> chunk_id, start_y |-> start_y, end_y |-> end_y,
         all_regions |-> results,
         interesting_regions |->
             SelectSeq(results, LAMBDA r : /\ FarFromMean(r.fractal_dimension, n, sum, sumsq)
                                           /\ GoodFit(r.r_squared)),
         stats |-> [n |-> n, sum |-> sum, sumsq |-> sumsq]]

\* a yield for every chunk
YieldsAlways(results) == TRUE

\* line 108: if results
Yields(results) == results # <<>>

\* chunk_id counts the chunks that yielded
NextChunkIdIfYielded(chunk_id, results) ==
    IF results # <<>> THEN chunk_id + 1 ELSE chunk_id

\* line 131: chunk_id += 1, whatever the chunk returned
NextChunkId(chunk_id, results) == chunk_id + 1

\* a range that still yields its stop
ExhaustedPast(start_y, total_height) == start_y > total_height

\* line 96: range(0, total_height, self.chunk_size) is used up
Exhausted(start_y, total_height) == start_y >= total_height

AnStart(run) ==
    /\ an_pc = "init"
    /\ an_cfg = [grid_size |-> run.grid_size, chunk_size |-> run.chunk_size]
    /\ an_raster = [height |-> run.height, width |-> run.width]
    /\ an_start_y = 0
    /\ an_chunk_id = 0
    /\ an_yielded = <<>>
    /\ an_files = {}
    /\ an_passes = <<>>
    /\ an_last = <<>>
    /\ SplitIdle /\ EstIdle /\ MetIdle /\ IdIdle
    /\ JobIdle
    /\ PipeIdle
    /\ StepIdle

InitAna == \E run \in AnalyzerRuns : AnStart(run)

\* the runs on rasters one grid wide or narrower
InitAnaNarrow == \E run \in {r \in AnalyzerRuns : r.width <= r.grid_size} : AnStart(run)

\* lines 92-94: open the source; the generator starts at its first next()
AnOpen ==
    /\ an_pc = "init"
    /\ an_pc' = "run"
    /\ UNCHANGED <<an_cfg, an_raster, an_start_y, an_chunk_id, an_yielded, an_files,
                   an_passes, an_last, notAna>>

\* lines 96-131: one pass of the chunk loop
AnChunk ==
    /\ an_pc = "run"
    /\ ~Exhausted(an_start_y, an_raster.height)
    /\ LET end_y == Min(an_start_y + an_cfg.chunk_size + an_cfg.grid_size, an_raster.height)
           grids == ChunkGrids(an_cfg.grid_size, end_y - an_start_y, an_raster.width,
                               an_start_y)
       IN  \E inputs \in ChunkInputs(Len(grids), CanEstimate(an_cfg.grid_size)) :
              LET out == ChunkResults(an_files, an_chunk_id, an_cfg.grid_size, grids, inputs)
              IN  /\ an_files' = out.files
                  /\ an_last' = [chunk_id |-> an_chunk_id,
                                 grids |-> [i \in 1..Len(inputs) |->
                                               [x |-> grids[i].x, abs_y |-> grids[i].abs_y,
                                                input |-> inputs[i]]],
                                 candidates |-> Len(grids),
                                 kept |-> Len(out.results)]
                  /\ an_passes' = Append(an_passes,
                                         [chunk_id |-> an_chunk_id, start_y |-> an_start_y,
                                          end_y |-> end_y, kept |-> Len(out.results)])
                  /\ an_yielded' =
                         IF Yields(out.results)
                         THEN Append(an_yielded,
                                     ChunkResult(an_chunk_id, an_start_y, end_y, out.results))
                         ELSE an_yielded
                  /\ an_chunk_id' = NextChunkId(an_chunk_id, out.results)
    /\ an_start_y' = an_start_y + an_cfg.chunk_size
    /\ UNCHANGED <<an_pc, an_cfg, an_raster, notAna>>

\* line 96: the range is used up, the generator is exhausted
AnFinish ==
    /\ an_pc = "run"
    /\ Exhausted(an_start_y, an_raster.height)
    /\ an_pc' = "done"
    /\ UNCHANGED <<an_cfg, an_raster, an_start_y, an_chunk_id, an_yielded, an_files,
                   an_passes, an_last, notAna>>

NextAna ==
    \/ AnOpen
    \/ AnChunk
    \/ AnFinish

SpecAna == InitAna /\ [][NextAna]_vars

\* the consumer keeps asking the generator for its next item
SpecAnaFair == InitAnaNarrow /\ [][NextAna]_vars /\ WF_vars(NextAna)

SpecSplitGeom == InitSplitGeom /\ [][NextSplit]_vars

(***************************************************************************)
(* grid_id formatting: splitter.py line 57, terrain.py line 26             *)
(***************************************************************************)
\* pixel positions and chunk indexes around the widths of the format fields
IdPositions == {0, 1, 11, 99999, 100000}

IdChunks == {0, 1, 999, 1000}

IdKeys(component) ==
    {[chunk_id |-> c, x |-> x, y |-> y] :
        c \in IF component = "analyzer" THEN IdChunks ELSE {0},
        x \in IdPositions, y \in IdPositions}

\* the grid_id a component gives the tile with this key
FormatId(component, key) ==
    IF component = "analyzer" THEN AnalyzerGridId(key.chunk_id, key.x, key.y)
    ELSE GridId(key.x, key.y)

InitIds ==
    /\ id_pc = "init"
    /\ \E component \in {"splitter", "analyzer"} :
          \E a, b \in IdKeys(component) :
             id_keys = [component |-> component, a |-> a, b |-> b]
    /\ id_out = <<>>
    /\ SplitIdle /\ EstIdle /\ MetIdle /\ AnaIdle
    /\ JobIdle
    /\ PipeIdle
    /\ StepIdle

\* the two tiles get their grid_ids
IdFormat ==
    /\ id_pc = "init"
    /\ id_out' = <<FormatId(id_keys.component, id_keys.a), FormatId(id_keys.component, id_keys.b)>>
    /\ id_pc' = "done"
    /\ UNCHANGED <<id_keys, notId>>

\* the grid_ids of a splitter run, of an analyzer run, and of pairs of tiles
InitGridIds ==
    \/ InitSplitGeom
    \/ InitAna
    \/ InitIds

NextGridIds ==
    \/ SplitOpen
    \/ SplitTile
    \/ SplitFinish
    \/ AnOpen
    \/ AnChunk
    \/ AnFinish
    \/ IdFormat

SpecGridIds == InitGridIds /\ [][NextGridIds]_vars

\* the estimator and its two callers on single grids, and whole analyzer runs
InitMinSize ==
    \/ InitEst
    \/ InitAna

NextMinSize ==
    \/ BoxCountCall
    \/ EstimateCall
    \/ MetricsComputerCall
    \/ ProcessGridCall
    \/ AnOpen
    \/ AnChunk
    \/ AnFinish

SpecMinSize == InitMinSize /\ [][NextMinSize]_vars

(***************************************************************************)
(* Splitter properties.                                                    *)
(***************************************************************************)
SplitPlanned == sp_pc \in {"loop", "done", "raised"}

VisitedSet == {<<sp_events[i].x, sp_events[i].y>> : i \in DOMAIN sp_events}

PlannedSet == {<<sp_plan.windows[i].x, sp_plan.windows[i].y>> : i \in DOMAIN sp_plan.windows}

\* the positions the tiling rule names: multiples of step that leave room for a tile
FittingPositions ==
    {p \in (0 .. sp_raster.width - sp_plan.size) \X (0 .. sp_raster.height - sp_plan.size) :
        p[1] % sp_plan.step = 0 /\ p[2] % sp_plan.step = 0}

\* C1: the candidate windows are exactly the multiples of step that fit in the
\* raster, each visited once, all of them once both loops are exhausted; every
\* tile file is S x S with S > 0 and lies inside the raster.
C1_Tiling ==
    SplitPlanned =>
        /\ sp_plan.size > 0 /\ sp_plan.step > 0
        /\ sp_plan.step = sp_plan.size - sp_plan.overlap
        /\ PlannedSet = FittingPositions
        /\ Cardinality(PlannedSet) = Len(sp_plan.windows)
        /\ VisitedSet = {<<sp_plan.windows[i].x, sp_plan.windows[i].y>> : i \in 1..Len(sp_events)}
        /\ (sp_pc = "done" => VisitedSet = FittingPositions)
        /\ \A f \in sp_out :
              /\ f.width = sp_plan.size /\ f.height = sp_plan.size
              /\ f.x + sp_plan.size <= sp_raster.width
              /\ f.y + sp_plan.size <= sp_raster.height
              /\ <<f.x, f.y>> \in FittingPositions

\* a finished run over at least 2 x 2 overlapping windows that saved a tile
C1_Witness ==
    /\ sp_pc = "done"
    /\ sp_plan.overlap > 0
    /\ \E a, b \in VisitedSet : a[1] < b[1] /\ a[2] < b[2]
    /\ \E f \in sp_out : f.complete /\ f.x > 0 /\ f.y > 0

\* a window holds a non-zero pixel iff it meets the rectangle of non-zero pixels
HasNonZero(x, y) ==
    /\ sp_raster.nz.x0 < sp_raster.nz.x1 /\ sp_raster.nz.y0 < sp_raster.nz.y1
    /\ sp_raster.nz.x0 < x + sp_plan.size /\ x < sp_raster.nz.x1
    /\ sp_raster.nz.y0 < y + sp_plan.size /\ y < sp_raster.nz.y1

CompleteTiles == {f \in sp_out : f.complete}

IsQuadrantScenario ==
    /\ sp_raster.height = 1024 /\ sp_raster.width = 1024
    /\ sp_cfg = [grid_size |-> 512, overlap |-> 0]
    /\ sp_raster.nz.x0 < sp_raster.nz.x1

NoFaultHit ==
    \A i \in DOMAIN sp_events :
        sp_events[i].outcome \notin {"read_failed", "open_failed", "write_failed"}

\* C2: a visited window is persisted as a tile iff it holds a non-zero pixel and
\* its read and write did not fail; grid_count counts exactly those; an all-zero
\* raster ends with 0 tiles, and the 1024 x 1024 raster with one non-zero
\* quadrant, split with grid_size 512 and overlap 0, ends with exactly one.
C2_Background ==
    SplitPlanned =>
        /\ \A i \in DOMAIN sp_events :
              LET e == sp_events[i]
              IN  (\E f \in CompleteTiles : f.x = e.x /\ f.y = e.y)
                      <=> (HasNonZero(e.x, e.y) /\ e.outcome = "saved")
        /\ \A i \in DOMAIN sp_events :
              (sp_events[i].outcome = "skipped") => ~HasNonZero(sp_events[i].x, sp_events[i].y)
        /\ \A i \in DOMAIN sp_events :
              (~HasNonZero(sp_events[i].x, sp_events[i].y)) =>
                  sp_events[i].outcome \in {"skipped", "read_failed"}
        /\ sp_count = Cardinality(CompleteTiles)
        /\ (sp_pc = "done" /\ sp_raster.nz = NoPixels => sp_out = {} /\ sp_count = 0)
        /\ (sp_pc = "done" /\ IsQuadrantScenario /\ NoFaultHit =>
                Cardinality(sp_out) = 1 /\ sp_count = 1)

\* the quadrant scenario has run to its end and left its one tile
C2_Witness ==
    /\ sp_pc = "done" /\ IsQuadrantScenario /\ NoFaultHit
    /\ Len(sp_events) = 4
    /\ \E f \in CompleteTiles : f.x = 512 /\ f.y = 512

\* C3: effective size min(grid_size, height), effective overlap
\* floor(size * overlap / grid_size), step = size - overlap, and no tile
\* beyond the raster.
C3_Clamping ==
    SplitPlanned =>
        /\ sp_plan.size = Min(sp_cfg.grid_size, sp_raster.height)
        /\ sp_plan.overlap = (sp_plan.size * sp_cfg.overlap) \div sp_cfg.grid_size
        /\ sp_plan.step = sp_plan.size - sp_plan.overlap
        /\ \A f \in sp_out : f.x + f.width <= sp_raster.width
                             /\ f.y + f.height <= sp_raster.height

\* C4: no single tile's read or write failure aborts the run: the run never
\* raises, a failed tile is left behind and the loops go on to every other
\* window, and the count is the number of completed writes.
C4_FailureIsolation ==
    /\ sp_pc # "raised"
    /\ (sp_pc = "done" => VisitedSet = PlannedSet)
    /\ (SplitPlanned =>
           sp_count = Cardinality({i \in DOMAIN sp_events : sp_events[i].outcome = "saved"}))

SplitConstructed == sp_pc \in {"init", "loop", "done", "raised"}

\* the tiles of all ChunkResults yielded so far
YieldedTiles ==
    {<<k, i>> : k \in 1..Len(an_yielded), i \in 1..MaxTypical + 4} \cap
    {p \in (1..Len(an_yielded)) \X (1..MaxTypical + 4) :
        p[2] <= Len(an_yielded[p[1]].all_regions)}

\* C12: within one run distinct tiles have distinct grid_ids: in the splitter
\* by (x, y), in the analyzer by chunk index and (x, absolute y); so every
\* saved tile keeps its own file and every returned tile its own record.
C12_GridIdUnique ==
    /\ (id_pc = "done" => ((id_out[1] = id_out[2]) <=> (id_keys.a = id_keys.b)))
    /\ (sp_pc \in {"loop", "done"} =>
           /\ \A i, j \in DOMAIN sp_plan.windows :
                  GridId(sp_plan.windows[i].x, sp_plan.windows[i].y)
                      = GridId(sp_plan.windows[j].x, sp_plan.windows[j].y) => i = j
           /\ Cardinality(sp_out)
                  = Cardinality({i \in DOMAIN sp_events : sp_events[i].outcome = "saved"}))
    /\ (an_pc \in {"run", "done"} =>
           /\ \A p, q \in YieldedTiles :
                  an_yielded[p[1]].all_regions[p[2]].grid_id
                      = an_yielded[q[1]].all_regions[q[2]].grid_id => p = q
           /\ Cardinality({f \in an_files : f.ext = "json" /\ f.state = "complete"})
                  = Cardinality(YieldedTiles)
           /\ Cardinality({f \in an_files : f.ext = "tif" /\ f.state = "complete"})
                  >= Cardinality(YieldedTiles))

\* two chunks of one run returned a tile at the same (x, absolute y), under
\* different grid_ids
C12_Witness ==
    /\ Len(an_yielded) = 2
    /\ \E p, q \in YieldedTiles :
          /\ p[1] = 1 /\ q[1] = 2
          /\ an_yielded[1].all_regions[p[2]].position = an_yielded[2].all_regions[q[2]].position
          /\ an_yielded[1].all_regions[p[2]].grid_id # an_yielded[2].all_regions[q[2]].grid_id

\* C29: with grid_size >= 1 and 0 <= overlap < grid_size the step of the
\* tiling loops is at least 1 also after clamping, so split_terrain reaches
\* the end of its loops after finitely many windows.
C29_StepPositive ==
    st_pc \in {"done", "raised"} =>
        /\ st_out.step >= 1
        /\ st_pc = "done"
        /\ st_out.windows <= st_in.height * st_in.width

\* the raster is narrower than the effective grid size
IsNarrow == sp_raster.width < Min(sp_cfg.grid_size, sp_raster.height)

\* C30: the grid size is clamped against the height only; on a raster narrower
\* than the effective grid size split_terrain visits no window, persists no
\* tile, and ends without raising.
C30_NarrowRaster ==
    (sp_pc \in {"init", "loop", "done", "raised"} /\ IsNarrow) =>
        /\ sp_pc # "raised"
        /\ sp_pc \in {"loop", "done"} =>
              /\ sp_plan.size = Min(sp_cfg.grid_size, sp_raster.height)
              /\ sp_plan.size > sp_raster.width
              /\ sp_plan.windows = <<>>
              /\ sp_i > Len(sp_plan.windows)
              /\ sp_events = <<>>
              /\ sp_out = {}
              /\ sp_count = 0

\* a narrow raster with non-zero pixels, split to the end with nothing written
C30_Witness ==
    /\ sp_pc = "done" /\ IsNarrow
    /\ sp_raster.nz # NoPixels
    /\ sp_raster.width >= 2
    /\ sp_out = {} /\ sp_count = 0

\* C13: the splitter works its tiles with a pool of exactly
\* max(1, floor(cpu_count * cpu_fraction)) workers.
C13_WorkerPool ==
    SplitConstructed =>
        /\ NCpus(sp_host) >= 1
        /\ NCpus(sp_host) <= sp_host.cpu_count
        /\ SplitPoolSize = NCpus(sp_host)

\* C14: once the splitter is constructed every threading variable is "1".
C14_ThreadKnobs ==
    SplitConstructed => \A k \in ThreadKnobs : sp_env[k] = <<1>>

(***************************************************************************)
(* Estimator properties.                                                   *)
(***************************************************************************)
\* the cells of the whole box_size x box_size box in row i, column j of the
\* lattice anchored at the top-left corner
LatticeCells(box_size, i, j) ==
    {<<i * box_size + a, j * box_size + b>> : a, b \in 0 .. box_size - 1}

\* the number of lattice boxes whose max - min exceeds the threshold
LatticeCount(img, box_size) ==
    LET norm == NormalizedImage(img)
        sv   == ScaledVariance(img, norm)
    IN  Cardinality({b \in (0 .. (img.h \div box_size) - 1) \X (0 .. (img.w \div box_size) - 1) :
            ExceedsThreshold(Variation(norm, LatticeCells(box_size, b[1], b[2])),
                             Size(img), sv)})

\* C22: for a grid of shape (h, w) and box_size s, box_count examines the
\* floor(h/s) * floor(w/s) whole s x s boxes of the lattice anchored top-left
\* and returns how many of them have max - min above the threshold, a number
\* between 0 and floor(h/s) * floor(w/s).
C22_BoxLattice ==
    (es_pc = "counted" /\ ~es_result.raised /\ ~AllNaN(es_image)
        /\ ~NoBoxes(BoxShape(es_image, es_call.box_size))) =>
        /\ es_result.count >= 0
        /\ es_result.count
              <= (es_image.h \div es_call.box_size) * (es_image.w \div es_call.box_size)
        /\ es_result.count = LatticeCount(es_image, es_call.box_size)

SmallerDim == Min(es_image.h, es_image.w)

IsConstant(img) == Size(img) > 0 /\ Cardinality(Numbers(img)) <= 1

\* the powers of two from 4 up that are smaller than both dimensions' bound 2^k
PowersBelow(m) == {Pow2(i) : i \in {j \in 2..12 : Pow2(j + 1) <= m}}

UsableSizes(img) == {sz \in PowersBelow(Min(img.h, img.w)) : BoxCount(img, sz) > 0}

MustFail(img) ==
    \/ Size(img) = 0
    \/ AllNaN(img)
    \/ IsConstant(img)
    \/ Cardinality(UsableSizes(img)) < 2

\* C7: compute_fractal_dimension raises for an empty, all-nan or constant
\* image and whenever fewer than 2 box sizes give a non-zero count; the Metrics
\* Computer and the Terrain Analyzer then make no record for the tile.
C7_EstimatorFails ==
    /\ (es_pc \in {"estimated", "handled"} /\ MustFail(es_image)
            => es_result.est.status = "raised")
    /\ (es_pc = "handled" /\ es_result.est.status = "raised"
            => /\ es_result.out.record = NoRecord
               /\ es_result.out.status \in {"raised", "failed", "skipped"})

\* a 16 x 16 image that varies, with one usable box size only, was refused and
\* its caller made no record
C7_Witness ==
    /\ es_pc = "handled"
    /\ es_image = [h |-> 16, w |-> 16, kind |-> "steps"]
    /\ es_result.est.box_sizes = <<4, 8>>
    /\ Len(es_result.est.counts) = 1
    /\ es_result.est.status = "raised"
    /\ es_result.out.record = NoRecord

\* C8 as claimed: every box_size >= min(height, width) is unusable, box_count
\* returns 0 for it.
C8_UnusableAtLeastMin ==
    es_pc = "counted" /\ es_call.box_size >= SmallerDim
        => ~es_result.raised /\ es_result.count = 0

\* C8 amended: every box_size > min(height, width) is unusable: box_count
\* returns 0 without reducing over zero boxes.
C8_UnusableAboveMin ==
    es_pc = "counted" /\ es_call.box_size > SmallerDim
        => ~es_result.raised /\ es_result.count = 0

\* a box size between the two dimensions of an image that varies
C8_Witness ==
    /\ es_pc = "counted"
    /\ es_image = [h |-> 8, w |-> 9, kind |-> "ramp"]
    /\ es_call.box_size = 9
    /\ es_result.count = 0

\* the k with 2^k <= m < 2^(k+1)
Log2Of(m) == CHOOSE k \in 0..12 : Pow2(k) <= m /\ m < Pow2(k + 1)

\* C9: the box sizes tried are exactly 2^i for 2 <= i <= k-1 with
\* k = floor(log2(min(h, w))), in increasing order, each smaller than min(h, w).
C9_BoxSizes ==
    es_pc \in {"estimated", "handled"} /\ Size(es_image) > 0 =>
        LET sizes == es_result.est.box_sizes
            k     == Log2Of(SmallerDim)
        IN  /\ Len(sizes) = Max(0, k - 2)
            /\ \A i \in 1..Len(sizes) : sizes[i] = Pow2(i + 1) /\ sizes[i] < SmallerDim
            /\ \A i \in 1..Len(sizes) - 1 : sizes[i] < sizes[i + 1]
            /\ {sizes[i] : i \in 1..Len(sizes)} = PowersBelow(SmallerDim)

\* a 16-pixel image was tried with the sizes 4 and 8
C9_Witness ==
    /\ es_pc = "estimated"
    /\ SmallerDim = 16
    /\ es_result.est.box_sizes = <<4, 8>>

(***************************************************************************)
(* Metrics Generator properties.                                           *)
(***************************************************************************)
RecordsOf(i) == {r \in mg_records : r.stem = mg_tiles[i].stem}

\* C5: one file's failure never stops the run: the run does not raise, a
\* finished run has handled every file, every file that did not fail has its
\* complete record of this run, and (backend) the result list has one entry per
\* file, None exactly for the failed ones, with the success count the rest.
C5_MetricsIsolation ==
    /\ mg_pc # "raised"
    /\ (mg_pc = "done" =>
           /\ \A i \in DOMAIN mg_tiles :
                 /\ mg_state[i] \in {"ok", "failed"}
                 /\ (mg_state[i] = "ok" =>
                         RecordsOf(i) = {RecordFile(mg_tiles[i].stem, "complete", "this")})
                 /\ (mg_tiles[i].image.kind = "flat" => mg_state[i] = "failed")
           /\ (mg_cfg.variant = "backend" =>
                  /\ DOMAIN mg_results = DOMAIN mg_tiles
                  /\ \A i \in DOMAIN mg_tiles :
                        (mg_results[i] = "None") <=> (mg_state[i] = "failed")
                  /\ \A i \in DOMAIN mg_tiles : mg_results[i] \in {"None", "result"}
                  /\ mg_successful =
                         Cardinality({i \in DOMAIN mg_tiles : mg_state[i] = "ok"})))

\* a finished backend run of three files: the first failed, the others after it
\* were processed and have their records
C5_Witness ==
    /\ mg_pc = "done"
    /\ mg_cfg.variant = "backend"
    /\ Len(mg_tiles) = 3
    /\ mg_state = <<"failed", "ok", "ok">>
    /\ mg_successful = 2

\* C6: at every point of a run, a record file of a file taken up in this run
\* exists only if that file's computation and dump succeeded in this run, and
\* is then complete with grid_id the file's base name.
C6_RecordAtomicity ==
    mg_pc \in {"run", "done"} =>
        \A i \in DOMAIN mg_tiles :
            mg_state[i] # "pending" =>
                \A r \in RecordsOf(i) :
                    /\ mg_state[i] = "ok"
                    /\ r.state = "complete" /\ r.run = "this"
                    /\ r.grid_id = mg_tiles[i].stem

(***************************************************************************)
(* Terrain Analyzer properties.                                            *)
(***************************************************************************)
Dimensions(cr) == [i \in 1..Len(cr.all_regions) |-> cr.all_regions[i].fractal_dimension]

\* n times the population mean of the chunk's dimensions
ScaledMean(cr) == SeqSum(Dimensions(cr), Len(cr.all_regions))

\* n^3 times the population variance: the summed squares of n times the
\* deviations from the mean
ScaledSquares(cr) ==
    LET n == Len(cr.all_regions)
        m == ScaledMean(cr)
    IN  SeqSum([i \in 1..n |-> (n * Dimensions(cr)[i] - m) * (n * Dimensions(cr)[i] - m)], n)

\* |fd - mean| > 2 * std, given n, n * mean and n^3 * variance
Deviates(fd, n, scaledMean, scaledSquares) ==
    n * (n * fd - scaledMean) * (n * fd - scaledMean) > 4 * scaledSquares

InSeq(x, seq) == \E i \in 1..Len(seq) : seq[i] = x

\* mean 1.5 and standard deviation 0.1, in units of 0.005
IsExamplePopulation(cr) ==
    /\ ScaledMean(cr) = Len(cr.all_regions) * 300
    /\ ScaledSquares(cr) = Len(cr.all_regions) * Len(cr.all_regions) * Len(cr.all_regions) * 400

\* C10: in every ChunkResult a tile of all_regions is interesting iff its
\* dimension is more than 2 population standard deviations from the population
\* mean of that chunk's all_regions and its r_squared is above 0.9; with mean
\* 1.5 and std 0.1 a tile (1.9, 0.95) is interesting and a tile (1.9, 0.6) not.
C10_AnomalyRule ==
    \A k \in 1..Len(an_yielded) :
        LET cr == an_yielded[k]
            n  == Len(cr.all_regions)
            m  == ScaledMean(cr)
            v  == ScaledSquares(cr)
        IN  /\ \A i \in 1..Len(cr.all_regions) :
                  LET t == cr.all_regions[i]
                  IN  InSeq(t, cr.interesting_regions)
                          <=> (Deviates(t.fractal_dimension, n, m, v) /\ t.r_squared > 90)
            /\ \A i \in 1..Len(cr.interesting_regions) :
                  InSeq(cr.interesting_regions[i], cr.all_regions)
            /\ (IsExamplePopulation(cr) =>
                   \A i \in 1..Len(cr.all_regions) :
                       LET t == cr.all_regions[i]
                       IN  t.fractal_dimension = 380 =>
                               /\ (t.r_squared = 95 => InSeq(t, cr.interesting_regions))
                               /\ (t.r_squared = 60 => ~InSeq(t, cr.interesting_regions)))

\* one run yielded two chunks of mean 1.5 and std 0.1: in the first the tile
\* (1.9, 0.95) is interesting, in the second the tile (1.9, 0.6) is not
C10_Witness ==
    /\ Len(an_yielded) = 2
    /\ IsExamplePopulation(an_yielded[1]) /\ IsExamplePopulation(an_yielded[2])
    /\ \E i \in 1..Len(an_yielded[1].all_regions) :
          /\ an_yielded[1].all_regions[i].fractal_dimension = 380
          /\ an_yielded[1].all_regions[i].r_squared = 95
          /\ an_yielded[1].interesting_regions = <<an_yielded[1].all_regions[i]>>
    /\ \E i \in 1..Len(an_yielded[2].all_regions) :
          /\ an_yielded[2].all_regions[i].fractal_dimension = 380
          /\ an_yielded[2].all_regions[i].r_squared = 60
    /\ an_yielded[2].interesting_regions = <<>>

\* the ChunkResult of the last pass of the chunk loop, if it yielded one
LastRegions ==
    IF an_last.kept > 0 THEN an_yielded[Len(an_yielded)].all_regions ELSE <<>>

\* the handled grids of the last pass that meet the keep rule and were saved
Survivors ==
    {i \in DOMAIN an_last.grids :
        LET g == an_last.grids[i].input
        IN  /\ ~g.all_nan /\ ~g.raised /\ ~g.fit.nan /\ g.fit.r2 > 50
            /\ g.fault = "none"}

\* C15: the all_regions of a chunk are exactly its grids that were not all NaN,
\* got a non-NaN fractal dimension with r_squared > 0.5 from the estimator and
\* were saved, each with the fit of its grid.
C15_KeepRule ==
    an_last # <<>> =>
        /\ (an_last.kept > 0 => an_yielded[Len(an_yielded)].chunk_id = an_last.chunk_id)
        /\ Len(LastRegions) = Cardinality(Survivors)
        /\ \A k \in 1..Len(LastRegions) :
              /\ LastRegions[k].r_squared > 50
              /\ \E i \in Survivors :
                    /\ LastRegions[k].position = <<an_last.grids[i].x, an_last.grids[i].abs_y>>
                    /\ LastRegions[k].fractal_dimension = an_last.grids[i].input.fit.fd
                    /\ LastRegions[k].r_squared = an_last.grids[i].input.fit.r2
        /\ \A i \in Survivors :
              \E k \in 1..Len(LastRegions) :
                  LastRegions[k].position = <<an_last.grids[i].x, an_last.grids[i].abs_y>>

\* a chunk whose first grid had r_squared = 0.5 and was dropped, and whose
\* second grid was kept
C15_Witness ==
    /\ an_last # <<>>
    /\ Len(an_last.grids) = 2
    /\ an_last.grids[1].input.fit.r2 = 50 /\ ~an_last.grids[1].input.raised
    /\ ~an_last.grids[1].input.all_nan
    /\ an_last.kept = 1
    /\ LastRegions[1].position = <<an_last.grids[2].x, an_last.grids[2].abs_y>>

HasFile(grid_id, ext) == \E f \in an_files : f.id = grid_id /\ f.ext = ext

\* C16: after process_chunk, for every grid it handled the tile raster exists
\* iff the metrics record exists iff the tile was returned, and no file of the
\* chunk is partial.
C16_PersistenceConsistency ==
    an_last # <<>> =>
        \A i \in DOMAIN an_last.grids :
            LET grid_id  == AnalyzerGridId(an_last.chunk_id, an_last.grids[i].x,
                                           an_last.grids[i].abs_y)
                returned == \E k \in 1..Len(LastRegions) : LastRegions[k].grid_id = grid_id
            IN  /\ HasFile(grid_id, "tif") <=> HasFile(grid_id, "json")
                /\ HasFile(grid_id, "json") <=> returned
                /\ \A f \in an_files : f.id = grid_id => f.state = "complete"

\* C17: every yielded ChunkResult has tiles, and a pass of the chunk loop
\* yields a ChunkResult iff its chunk returned at least one tile.
C17_NoEmptyChunkResult ==
    /\ \A k \in 1..Len(an_yielded) : Len(an_yielded[k].all_regions) > 0
    /\ \A p \in 1..Len(an_passes) :
          (an_passes[p].kept > 0)
              <=> (\E k \in 1..Len(an_yielded) : an_yielded[k].start_y = an_passes[p].start_y)
    /\ Len(an_yielded) = Cardinality({p \in 1..Len(an_passes) : an_passes[p].kept > 0})

\* a finished run of two chunks: the first returned nothing and yielded
\* nothing, the second yielded
C17_Witness ==
    /\ an_pc = "done"
    /\ Len(an_passes) = 2
    /\ an_passes[1].kept = 0 /\ an_passes[2].kept > 0
    /\ Len(an_yielded) = 1
    /\ Len(an_yielded[1].all_regions) = an_passes[2].kept

YieldedInOrder ==
    /\ \A k \in 1..Len(an_yielded) :
          an_yielded[k].start_y = an_yielded[k].chunk_id * an_cfg.chunk_size
    /\ \A j, k \in 1..Len(an_yielded) :
          j < k => /\ an_yielded[j].start_y < an_yielded[k].start_y
                   /\ an_yielded[j].chunk_id < an_yielded[k].chunk_id

CursorForward ==
    /\ an_start_y' >= an_start_y
    /\ an_chunk_id' >= an_chunk_id
    /\ Len(an_yielded') >= Len(an_yielded)
    /\ \A k \in 1..Len(an_yielded) : an_yielded'[k] = an_yielded[k]

\* C18: the yielded ChunkResults have strictly increasing start_y and chunk_id
\* with start_y = chunk_id * chunk_size, whatever earlier chunks yielded, and
\* the cursor (start_y, chunk_id) never moves back.
C18_EmissionOrder == [](an_pc \in {"run", "done"} => YieldedInOrder) /\ [][CursorForward]_vars

\* the first chunk yielded nothing, the second was yielded as chunk 1
C18_Witness ==
    /\ Len(an_passes) = 2
    /\ an_passes[1].kept = 0
    /\ Len(an_yielded) = 1
    /\ an_yielded[1].chunk_id = 1
    /\ an_yielded[1].start_y = an_cfg.chunk_size

CeilDiv(a, b) == (a + b - 1) \div b

\* C19: analyze ends: the generator is exhausted after exactly
\* ceil(H / chunk_size) passes and at most as many ChunkResults, and every chunk
\* has finitely many grids because the stride is at least 1.
C19_Termination ==
    /\ <>(an_pc = "done")
    /\ [](an_pc \in {"init", "run", "done"} =>
             /\ Stride(an_cfg.grid_size) >= 1
             /\ Len(an_yielded) <= Len(an_passes)
             /\ Len(an_passes) <= CeilDiv(an_raster.height, an_cfg.chunk_size)
             /\ (an_pc = "done" =>
                    Len(an_passes) = CeilDiv(an_raster.height, an_cfg.chunk_size))
             /\ (an_last # <<>> =>
                    an_last.candidates <= an_raster.height * an_raster.width))

\* an exhausted generator that yielded for each of its two chunks
C19_Witness ==
    /\ an_pc = "done"
    /\ CeilDiv(an_raster.height, an_cfg.chunk_size) = 2
    /\ Len(an_yielded) = 2

\* C20: a chunk is the rows [start_y, min(start_y + chunk_size + grid_size, H))
\* and every returned tile is a whole grid_size x grid_size window inside its
\* chunk and the raster.
C20_NoTruncation ==
    \A k \in 1..Len(an_yielded) :
        LET cr == an_yielded[k]
        IN  /\ cr.end_y = Min(cr.start_y + an_cfg.chunk_size + an_cfg.grid_size,
                              an_raster.height)
            /\ \A i \in 1..Len(cr.all_regions) :
                  LET t == cr.all_regions[i]
                  IN  /\ t.size = an_cfg.grid_size
                      /\ t.position[1] >= 0
                      /\ t.position[1] + t.size <= an_raster.width
                      /\ t.position[2] >= cr.start_y
                      /\ t.position[2] + t.size <= cr.end_y
                      /\ t.position[2] + t.size <= an_raster.height

\* a chunk cut short by the end of the raster with a tile that ends on the
\* raster's last row
C20_Witness ==
    \E k \in 1..Len(an_yielded) :
        LET cr == an_yielded[k]
        IN  /\ cr.end_y < cr.start_y + an_cfg.chunk_size + an_cfg.grid_size
            /\ cr.start_y > 0
            /\ \E i \in 1..Len(cr.all_regions) :
                  /\ cr.all_regions[i].position[2] + an_cfg.grid_size = an_raster.height
                  /\ cr.all_regions[i].position[1] + an_cfg.grid_size = an_raster.width

\* the absolute positions (x, abs_y) of the tiles of the k-th ChunkResult
PositionsOf(k) ==
    {an_yielded[k].all_regions[i].position : i \in 1..Len(an_yielded[k].all_regions)}

\* C26: each absolute tile position (x, abs_y) is in the all_regions of at
\* most one ChunkResult of a run: the grid_size rows read beyond a chunk never
\* make two consecutive chunks analyse, persist and return the same window.
C26_NoPositionTwice ==
    an_pc \in {"run", "done"} =>
        \A k, l \in 1..Len(an_yielded) :
            k # l => PositionsOf(k) \cap PositionsOf(l) = {}

\* C27: compute_fractal_dimension raises for every grid whose smaller
\* dimension is below 16 (no box size below 8, the single size 4 from 8 to
\* 15); so no caller makes a record for such a tile, and the Terrain Analyzer
\* with grid_size < 16 returns no tile and persists nothing.
C27_MinimumSize ==
    /\ (es_pc \in {"estimated", "handled"} /\ SmallerDim < 16) =>
          /\ es_result.est.status = "raised"
          /\ (Size(es_image) > 0 /\ SmallerDim < 8) => es_result.est.box_sizes = <<>>
          /\ SmallerDim >= 8 => es_result.est.box_sizes = <<4>>
          /\ Len(es_result.est.counts) <= 1
          /\ es_pc = "handled" =>
                /\ es_result.out.record = NoRecord
                /\ es_result.out.status \in {"raised", "failed", "skipped"}
    /\ (an_pc \in {"run", "done"} /\ an_cfg.grid_size < 16) =>
          /\ an_yielded = <<>>
          /\ an_files = {}
          /\ \A i \in 1..Len(an_passes) : an_passes[i].kept = 0

\* a 15 x 15 grid that varies gave one count, for box size 4, and was refused
C27_Witness ==
    /\ es_pc = "handled"
    /\ es_image.h = 15 /\ es_image.w = 15
    /\ es_result.est.box_sizes = <<4>>
    /\ Len(es_result.est.counts) = 1
    /\ es_result.est.error = "Not enough valid counts for regression"
    /\ es_result.out.record = NoRecord

\* C28: in exact arithmetic a ChunkResult with 5 or fewer tiles has no
\* interesting region, whatever the dimensions and r_squared values: no value
\* of a population of n <= 5 is more than 2 population standard deviations
\* from the mean (a single tile and equal dimensions have std 0).
C28_SmallBatches ==
    \A k \in 1..Len(an_yielded) :
        Len(an_yielded[k].all_regions) <= 5 => an_yielded[k].interesting_regions = <<>>

\* a chunk of five well-fitted tiles, four of dimension 1.475 and one of 1.9,
\* exactly 2 standard deviations from the mean, has no interesting region;
\* the chunk before it has a single tile
C28_Witness ==
    /\ Len(an_yielded) = 2
    /\ Len(an_yielded[1].all_regions) = 1
    /\ Len(an_yielded[2].all_regions) = 5
    /\ \A i \in 1..5 : an_yielded[2].all_regions[i].r_squared = 95
    /\ an_yielded[2].all_regions[1].fractal_dimension = 380
    /\ \A i \in 2..5 : an_yielded[2].all_regions[i].fractal_dimension = 295
    /\ ~Deviates(380, 5, ScaledMean(an_yielded[2]), ScaledSquares(an_yielded[2]))
    /\ Deviates(380, 5, ScaledMean(an_yielded[2]) - 1, ScaledSquares(an_yielded[2]))
    /\ an_yielded[2].interesting_regions = <<>>

\* C21: the complete command runs split, then metrics generation, then
\* analysis; the metrics stage writes a record for every tile the split stage
\* persisted before the analysis starts; the command exits with status 0 when
\* no stage raised.
C21_StageOrder ==
    pl_in.command = "complete" =>
        /\ \A i \in 1..Len(pl_trace) : pl_trace[i] = <<"split", "metrics", "analysis">>[i]
        /\ (Len(pl_trace) = 3 => pl_tiles \subseteq pl_records)
        /\ (pl_pc = "exited" /\ ~pl_in.split_raises) =>
              /\ pl_trace = <<"split", "metrics", "analysis">>
              /\ pl_tiles = PipeTiles(pl_in.tiles)
              /\ pl_tiles \subseteq pl_records
              /\ pl_exit = 0

\* C23: the status endpoint reports 'complete' for a job only when the job's
\* pipeline (split, metrics, analysis) has finished, never while the pipeline
\* the upload request started is still running.
C23_CompleteMeansFinished ==
    (jb_poll # <<>> /\ jb_poll.answer.status = "complete") =>
        jb_poll.at \in {"exited", "returned"}

\* C24: once the upload request of a job has returned, with success or with
\* an error, the status endpoint never reports 'processing' for the job, also
\* when the raster gave no tile or the pipeline subprocess failed.
C24_NoProcessingAfterReturn ==
    (jb_poll # <<>> /\ jb_poll.at = "returned") => jb_poll.answer.status # "processing"

\* the tile metrics records of the job results directory
TileRecords == jb_dir \cap JobTileFiles(jb_in.tiles, "json")

\* C25: for a finished job metrics_count of the status endpoint and
\* total_grids of the results endpoint equal the number of tile metrics
\* records of the job results directory; params.json and filtered_results.json
\* are neither counted nor returned as a grid result.
C25_ResultCounts ==
    /\ (jb_poll # <<>> /\ jb_poll.at = "returned" /\ jb_poll.answer.status = "complete") =>
          jb_poll.answer.metrics_count = Cardinality(TileRecords)
    /\ (jb_res # <<>> /\ jb_res.at = "returned" /\ jb_res.answer.status = "success") =>
          /\ jb_res.answer.total_grids = Cardinality(TileRecords)
          /\ jb_res.answer.results \subseteq {f.stem : f \in TileRecords}

====
